---- MODULE Spec2Model ----
(***************************************************************************)
(* A model of celestia-node-rs:                                            *)
(*   - types/src/share.rs   : Share::new / Share::to_vec, row conversions  *)
(*   - node/src/exchange.rs : HeaderCodec and exchange_behaviour           *)
(*   - node/src/main.rs     : the swarm event loop of the node             *)
(*   - node-uniffi/src/types/event.rs : From<LuminaNodeEvent> for NodeEvent*)
(*   - the Synchronizer, DASer and Pruner that emit those events           *)
(*   - grpc/src/utils.rs    : Interval, native and wasm32                  *)
(*   - node-wasm/src/utils.rs : resolve_dnsaddr_multiaddress, Network      *)
(*   - cli/src/common.rs    : ArgNetwork                                   *)
(* Ten specifications share the module: ShareSpec, RowSpec, CodecSpec,     *)
(* BehaviourSpec, Spec (the event loop), EventSpec, NodeSpec, IntervalSpec,*)
(* DnsSpec and NetworkSpec.  Each one moves only its own variables.        *)
(***************************************************************************)
EXTENDS Integers, Sequences, FiniteSets, TLC

VARIABLES
    \* ---- types/src/share.rs ----
    bytes,      \* the Vec<u8> handed to Share::new
    share,      \* Some(what Share::new returned), None before the call
    vec,        \* Some(the Vec<u8> Share::to_vec returned), None before the call
    \* ---- node/src/exchange.rs ----
    codec,      \* the HeaderCodec value (&mut self of the Codec methods)
    last,       \* the most recent Codec call: method, input, what it read, result
    memo,       \* an earlier Codec call, remembered for comparison
    ncalls,     \* number of Codec calls made so far
    behaviours, \* the ExchangeBehaviours built so far, by network name
    \* ---- node/src/main.rs ----
    pc,         \* position of main: "setup", "loop" or "exited"
    dialed,     \* swarm.dial(bridge_ma) has been called
    identified, \* peers for which an Identify Received event has been handled
    outbound,   \* header_ex requests the node sent, by request id
    inbound,    \* header_ex requests the node received, in order of arrival
    event,      \* the swarm event the loop handled last
    \* ---- node-uniffi/src/types/event.rs ----
    lumina,     \* Some(the LuminaNodeEvent to convert), None outside EventSpec
    node_event, \* Some(what NodeEvent::from returned or that it panicked)
    \* ---- the node that emits the events of event.rs ----
    store,      \* the verified header store, by height
    samples,    \* the sampling sessions and sample results, by height
    sync,       \* the Synchronizer's state and the range it is fetching
    pruner,     \* sweeps done, pruned-headers events emitted, last cutoff
    node,       \* Running or NetworkCompromised, and the compromise events emitted
    emitted,    \* the events the last step put on the Event Bus, in order
    \* ---- types/src/share.rs: rows ----
    raw_row,    \* the RawRow handed to NamespacedRow::try_from
    row,        \* Some(what try_from returned), None before the call
    raw_back,   \* Some(the RawRow built from the decoded row)
    row_again,  \* Some(what try_from returned for raw_back)
    \* ---- grpc/src/utils.rs ----
    target_arch, \* "native" or "wasm32": which mod imp was compiled
    dur,        \* the Duration handed to Interval::new
    interval,   \* None before Interval::new, then Some(the Interval or a panic)
    clock,      \* time since Interval::new was called, in half periods
    ticks,      \* the clock values at which the tick() calls completed
    ticking,    \* a tick() call is pending
    \* ---- node-wasm/src/utils.rs ----
    ma,         \* the Multiaddr handed to resolve_dnsaddr_multiaddress
    doh_response, \* what the dns-over-https request will be answered with
    requests,   \* the urls fetched so far
    resolved,   \* Some(what resolve_dnsaddr_multiaddress returned)
    \* ---- cli/src/common.rs, node-wasm/src/utils.rs ----
    conversions \* a network value followed by the values into() made of it

shareVars == <<bytes, share, vec>>
codecVars == <<codec, last, memo, ncalls>>
mainVars  == <<pc, dialed, identified, outbound, inbound, event>>
eventVars == <<lumina, node_event>>
nodeVars  == <<store, samples, sync, pruner, node, emitted>>
rowVars   == <<raw_row, row, raw_back, row_again>>
intervalVars == <<target_arch, dur, interval, clock, ticks, ticking>>
dnsVars   == <<ma, doh_response, requests, resolved>>
bindVars  == <<intervalVars, dnsVars, conversions>>
offShare  == <<codecVars, behaviours, mainVars, eventVars, nodeVars, rowVars, bindVars>>
offCodec  == <<shareVars, behaviours, mainVars, eventVars, nodeVars, rowVars, bindVars>>
offBehaviour == <<shareVars, codecVars, mainVars, eventVars, nodeVars, rowVars, bindVars>>
offMain   == <<shareVars, codecVars, behaviours, eventVars, nodeVars, rowVars, bindVars>>
offEvent  == <<shareVars, codecVars, behaviours, mainVars, nodeVars, rowVars, bindVars>>
offNode   == <<shareVars, codecVars, behaviours, mainVars, eventVars, rowVars, bindVars>>
offRow    == <<shareVars, codecVars, behaviours, mainVars, eventVars, nodeVars, bindVars>>
coreVars  == <<shareVars, codecVars, behaviours, mainVars, eventVars, nodeVars, rowVars>>
offInterval == <<coreVars, dnsVars, conversions>>
offDns    == <<coreVars, intervalVars, conversions>>
offNetwork == <<coreVars, intervalVars, dnsVars>>
vars      == <<bytes, share, vec, codec, last, memo, ncalls, behaviours,
               pc, dialed, identified, outbound, inbound, event,
               lumina, node_event, store, samples, sync, pruner, node, emitted,
               raw_row, row, raw_back, row_again,
               target_arch, dur, interval, clock, ticks, ticking,
               ma, doh_response, requests, resolved, conversions>>

Ok(v)  == [tag |-> "Ok", val |-> v]
Err(e) == [tag |-> "Err", err |-> e]

\* Option<T>
None    == [some |-> FALSE]
Some(v) == [some |-> TRUE, v |-> v]

Byte == 0..255

(***************************************************************************)
(*                      types/src/share.rs                                 *)
(***************************************************************************)

SHARE_SIZE == 512
NS_SIZE == 29

InvalidShareSize(n) == [kind |-> "InvalidShareSize", len |-> n]

\* Namespace::from_raw: the namespace is taken as the raw NS_SIZE bytes.
Namespace_from_raw(ns) ==
    IF Len(ns) # NS_SIZE
    THEN Err([kind |-> "InvalidNamespaceSize"])
    ELSE Ok(ns)

\* Namespace::as_bytes: the raw bytes the namespace was built from.
Namespace_as_bytes(namespace) == namespace

\* slice::split_at(mid): panics when mid > len.
split_at(s, mid) ==
    IF mid > Len(s)
    THEN [panic |-> TRUE, left |-> <<>>, right |-> <<>>]
    ELSE [panic |-> FALSE, left |-> SubSeq(s, 1, mid), right |-> SubSeq(s, mid + 1, Len(s))]

\* Mutant: the namespace is split off and parsed before the length is checked.
Share_new_ParseFirst(b) ==
    LET sp == split_at(b, NS_SIZE)
        ns == Namespace_from_raw(sp.left)
    IN  IF sp.panic
        THEN [result |-> Err([kind |-> "panic"]), called |-> <<"split_at">>]
        ELSE IF Len(b) # SHARE_SIZE
        THEN [result |-> Err(InvalidShareSize(Len(b))),
              called |-> <<"split_at", "Namespace::from_raw">>]
        ELSE IF ns.tag = "Err"
        THEN [result |-> ns, called |-> <<"split_at", "Namespace::from_raw">>]
        ELSE [result |-> Ok([namespace |-> ns.val, data |-> sp.right]),
              called |-> <<"split_at", "Namespace::from_raw">>]

\* Mutant: the length check also demands a zero namespace-version byte.
Share_new_Validating(b) ==
    IF Len(b) # SHARE_SIZE \/ b[1] # 0
    THEN [result |-> Err(InvalidShareSize(Len(b))), called |-> <<>>]
    ELSE [result |-> Ok([namespace |-> SubSeq(b, 1, NS_SIZE),
                         data |-> SubSeq(b, NS_SIZE + 1, Len(b))]),
          called |-> <<"split_at", "Namespace::from_raw">>]

\* Share::new.  result is the Result<Share>; called lists, in order, the
\* callees reached before returning.
Share_new(b) ==
    IF Len(b) # SHARE_SIZE
    THEN [result |-> Err(InvalidShareSize(Len(b))), called |-> <<>>]
    ELSE LET sp == split_at(b, NS_SIZE)
             ns == Namespace_from_raw(sp.left)
         IN  IF ns.tag = "Err"
             THEN [result |-> ns, called |-> <<"split_at", "Namespace::from_raw">>]
             ELSE [result |-> Ok([namespace |-> ns.val, data |-> sp.right]),
                   called |-> <<"split_at", "Namespace::from_raw">>]

\* Mutant: the data is emitted before the namespace.
Share_to_vec_DataFirst(s) == s.data \o Namespace_as_bytes(s.namespace)

\* Share::to_vec
Share_to_vec(s) == Namespace_as_bytes(s.namespace) \o s.data

\* ---- inputs of ShareSpec ----
ShareLens     == {0, 1, 100, SHARE_SIZE - 1, SHARE_SIZE, SHARE_SIZE + 1, 2 * SHARE_SIZE}
ShareVersions == {0, 1, 255}
ShareSeeds    == {0, 171, 255}
ShareStrides  == {0, 1, 7}

\* A byte vector of length n: first byte ver, then a seeded arithmetic pattern.
GenBytes(n, ver, seed, stride) ==
    [i \in 1..n |-> IF i = 1 THEN ver ELSE (seed + i * stride) % 256]

ShareIdle == bytes = <<>> /\ share = None /\ vec = None

ShareInit ==
    /\ \E n \in ShareLens, ver \in ShareVersions, seed \in ShareSeeds, stride \in ShareStrides :
          bytes = GenBytes(n, ver, seed, stride)
    /\ share = None
    /\ vec = None

\* let share = Share::new(bytes)
NewShare ==
    /\ share = None
    /\ share' = Some(Share_new(bytes))
    /\ UNCHANGED <<bytes, vec, offShare>>

\* let vec = share.to_vec()   (only a decoded Share has to_vec)
ToVec ==
    /\ share.some
    /\ share.v.result.tag = "Ok"
    /\ vec = None
    /\ vec' = Some(Share_to_vec(share.v.result.val))
    /\ UNCHANGED <<bytes, share, offShare>>

(***************************************************************************)
(*                      node/src/exchange.rs                               *)
(*                                                                         *)
(* Byte strings on the wire are kept run-length encoded: a sequence of     *)
(* runs [b, n] (n >= 1 copies of byte b), adjacent runs of different       *)
(* bytes.  A 10 MiB response body is then one run.                         *)
(***************************************************************************)

REQUEST_SIZE_MAXIMUM == 1024
RESPONSE_SIZE_MAXIMUM == 10 * 1024 * 1024

Min(a, b) == IF a < b THEN a ELSE b

BRun(b, n) == IF n = 0 THEN <<>> ELSE <<[b |-> b, n |-> n]>>

RECURSIVE BLen(_)
BLen(s) == IF s = <<>> THEN 0 ELSE Head(s).n + BLen(Tail(s))

BCat(s, t) ==
    IF s = <<>> THEN t
    ELSE IF t = <<>> THEN s
    ELSE IF s[Len(s)].b = t[1].b
    THEN SubSeq(s, 1, Len(s) - 1) \o <<[b |-> t[1].b, n |-> s[Len(s)].n + t[1].n]>> \o Tail(t)
    ELSE s \o t

RECURSIVE BTake(_, _)
BTake(s, k) ==
    IF k = 0 \/ s = <<>> THEN <<>>
    ELSE IF Head(s).n >= k THEN BRun(Head(s).b, k)
    ELSE <<Head(s)>> \o BTake(Tail(s), k - Head(s).n)

RECURSIVE BDrop(_, _)
BDrop(s, k) ==
    IF k = 0 \/ s = <<>> THEN s
    ELSE IF Head(s).n > k THEN <<[b |-> Head(s).b, n |-> Head(s).n - k]>> \o Tail(s)
    ELSE BDrop(Tail(s), k - Head(s).n)

RECURSIVE BOf(_)
BOf(q) == IF q = <<>> THEN <<>> ELSE BCat(BRun(Head(q), 1), BOf(Tail(q)))

\* ---- prost::encoding ----

\* encode_varint
RECURSIVE encode_varint(_)
encode_varint(v) ==
    IF v < 128 THEN <<v>> ELSE <<(v % 128) + 128>> \o encode_varint(v \div 128)

\* decode_varint: at most 10 bytes, 7 bits each, little endian.
RECURSIVE decode_varint_from(_, _, _, _)
decode_varint_from(buf, count, shift, acc) ==
    IF buf = <<>> THEN Err("invalid varint")
    ELSE LET byte == Head(buf).b
             v == acc + (byte % 128) * shift
         IN  IF byte < 128
             THEN IF count = 9 /\ byte >= 2
                  THEN Err("invalid varint")
                  ELSE Ok([v |-> v, rest |-> BDrop(buf, 1)])
             ELSE IF count = 9
             THEN Err("invalid varint")
             ELSE decode_varint_from(BDrop(buf, 1), count + 1, shift * 128, v)

decode_varint(buf) == decode_varint_from(buf, 0, 1, 0)

\* The `?` operator: an Err is returned as it is, an Ok value goes on to F.
Try(r, F(_)) == IF r.tag = "Err" THEN r ELSE F(r.val)

\* decode_key: (tag, wire_type)
decode_key(buf) ==
    Try(decode_varint(buf), LAMBDA k :
        IF k.v % 8 > 5 THEN Err("invalid wire type value")
        ELSE IF k.v \div 8 = 0 THEN Err("invalid tag value: 0")
        ELSE Ok([tag |-> k.v \div 8, wt |-> k.v % 8, rest |-> k.rest]))

\* skip_field: wire types 0 varint, 1 fixed64, 2 length-delimited,
\* 3 start group, 4 end group, 5 fixed32.  Returns the remaining buffer.
RECURSIVE skip_field(_, _, _, _)
skip_field(wt, tag, buf, depth) ==
    IF depth = 0 THEN Err("recursion limit reached")
    ELSE CASE wt = 0 ->
             Try(decode_varint(buf), LAMBDA r : Ok(r.rest))
      [] wt = 1 ->
             IF BLen(buf) < 8 THEN Err("buffer underflow") ELSE Ok(BDrop(buf, 8))
      [] wt = 5 ->
             IF BLen(buf) < 4 THEN Err("buffer underflow") ELSE Ok(BDrop(buf, 4))
      [] wt = 2 ->
             Try(decode_varint(buf), LAMBDA r :
                 IF r.v > BLen(r.rest) THEN Err("buffer underflow")
                 ELSE Ok(BDrop(r.rest, r.v)))
      [] wt = 3 ->
             Try(decode_key(buf), LAMBDA k :
                 IF k.wt = 4
                 THEN IF k.tag # tag
                      THEN Err("unexpected end group tag")
                      ELSE Ok(k.rest)
                 ELSE Try(skip_field(k.wt, k.tag, k.rest, depth - 1), LAMBDA inner :
                          skip_field(3, tag, inner, depth)))
      [] OTHER -> Err("unexpected end group tag")

\* ---- celestia_proto::p2p::pb ----
\* HeaderRequest  { oneof data { uint64 origin = 1; bytes hash = 2; } uint64 amount = 3; }
\* HeaderResponse { bytes body = 1; StatusCode status_code = 2; }
\* StatusCode     { INVALID = 0; OK = 1; NOT_FOUND = 2; }

\* header_request::Data; HeaderRequest.data is an Option of it.
Origin(h)     == [kind |-> "Origin", origin |-> h]
Hash(b)       == [kind |-> "Hash", hash |-> b]
HeaderRequest(amount, data)      == [amount |-> amount, data |-> data]
HeaderResponse(body, status)     == [body |-> body, status_code |-> status]
HeaderRequest_default            == HeaderRequest(0, None)
HeaderResponse_default           == HeaderResponse(<<>>, 0)

encode_key(tag, wt) == BOf(encode_varint(tag * 8 + wt))

\* <HeaderRequest as Message>::encode_raw
HeaderRequest_encode_raw(req) ==
    BCat(IF ~req.data.some THEN <<>>
         ELSE IF req.data.v.kind = "Origin"
         THEN BCat(encode_key(1, 0), BOf(encode_varint(req.data.v.origin)))
         ELSE BCat(encode_key(2, 2),
                   BCat(BOf(encode_varint(BLen(req.data.v.hash))), req.data.v.hash)),
         IF req.amount # 0
         THEN BCat(encode_key(3, 0), BOf(encode_varint(req.amount)))
         ELSE <<>>)

\* <HeaderResponse as Message>::encode_raw
HeaderResponse_encode_raw(resp) ==
    BCat(IF resp.body # <<>>
         THEN BCat(encode_key(1, 2),
                   BCat(BOf(encode_varint(BLen(resp.body))), resp.body))
         ELSE <<>>,
         IF resp.status_code # 0
         THEN BCat(encode_key(2, 0), BOf(encode_varint(resp.status_code)))
         ELSE <<>>)

encode_raw(kind, msg) ==
    IF kind = "request" THEN HeaderRequest_encode_raw(msg) ELSE HeaderResponse_encode_raw(msg)

length_delimited(raw) == BCat(BOf(encode_varint(BLen(raw))), raw)

\* Message::encode_length_delimited_to_vec
encode_length_delimited_to_vec(kind, msg) == length_delimited(encode_raw(kind, msg))

\* prost::encoding::{uint64, int32}::merge
merge_varint(wt, buf) ==
    IF wt # 0 THEN Err("invalid wire type") ELSE decode_varint(buf)

\* prost::encoding::bytes::merge
merge_bytes(wt, buf) ==
    IF wt # 2 THEN Err("invalid wire type")
    ELSE Try(decode_varint(buf), LAMBDA r :
             IF r.v > BLen(r.rest) THEN Err("buffer underflow")
             ELSE Ok([v |-> BTake(r.rest, r.v), rest |-> BDrop(r.rest, r.v)]))

\* Message::merge_field of the two messages: Ok([msg, rest]) or Err.
merge_field(kind, msg, tag, wt, buf) ==
    IF tag \notin (IF kind = "request" THEN {1, 2, 3} ELSE {1, 2})
    THEN Try(skip_field(wt, tag, buf, 100), LAMBDA rest : Ok([msg |-> msg, rest |-> rest]))
    ELSE Try(IF (kind = "request" /\ tag = 2) \/ (kind = "response" /\ tag = 1)
             THEN merge_bytes(wt, buf)
             ELSE merge_varint(wt, buf),
             LAMBDA r :
             Ok([msg |-> CASE kind = "request" /\ tag = 1 -> [msg EXCEPT !.data = Some(Origin(r.v))]
                           [] kind = "request" /\ tag = 2 -> [msg EXCEPT !.data = Some(Hash(r.v))]
                           [] kind = "request" /\ tag = 3 -> [msg EXCEPT !.amount = r.v]
                           [] kind = "response" /\ tag = 1 -> [msg EXCEPT !.body = r.v]
                           [] OTHER -> [msg EXCEPT !.status_code = r.v],
                 rest |-> r.rest]))

\* prost::encoding::merge_loop, after the length was read: fields are merged
\* until the buffer is down to limit bytes.
RECURSIVE merge_loop(_, _, _, _)
merge_loop(kind, msg, buf, limit) ==
    IF BLen(buf) < limit THEN Err("delimited length exceeded")
    ELSE IF BLen(buf) = limit THEN Ok(msg)
    ELSE Try(decode_key(buf), LAMBDA k :
             Try(merge_field(kind, msg, k.tag, k.wt, k.rest), LAMBDA f :
                 merge_loop(kind, f.msg, f.rest, limit)))

\* Message::decode_length_delimited: bytes after the delimited message are
\* left in the buffer, unread.
decode_length_delimited(kind, buf) ==
    Try(decode_varint(buf), LAMBDA len :
        IF len.v > BLen(len.rest) THEN Err("buffer underflow")
        ELSE merge_loop(kind,
                        IF kind = "request" THEN HeaderRequest_default ELSE HeaderResponse_default,
                        len.rest, BLen(len.rest) - len.v))

\* ---- HeaderCodec ----
\* A stream to read is [bytes, err]: the bytes the peer sends, then end of
\* stream (err = FALSE) or an I/O error (err = TRUE).
\* A stream to write is [fail]: whether write_all fails.

\* The unit struct HeaderCodec: it has no fields.
HeaderCodec == <<>>

\* io.take(limit).read_to_end(&mut vec)
take_read_to_end(io, limit) ==
    IF io.err /\ BLen(io.bytes) < limit
    THEN [vec |-> io.bytes, result |-> Err("io")]
    ELSE [vec |-> BTake(io.bytes, limit), result |-> Ok(Min(BLen(io.bytes), limit))]

\* Mutant: the request is read to the end of the stream, with no take().
read_request_Unbounded(self, io) ==
    LET r == take_read_to_end(io, BLen(io.bytes) + 1)
    IN  [self |-> self, vec |-> r.vec,
         result |-> Try(r.result, LAMBDA n : decode_length_delimited("request", r.vec))]

\* Mutant: bytes beyond the cap are kept in the codec and prepended to the
\* next request read.
read_request_Buffered(self, io) ==
    LET all == BCat(self, io.bytes)
        r == take_read_to_end([bytes |-> all, err |-> io.err], REQUEST_SIZE_MAXIMUM)
        over == BDrop(all, REQUEST_SIZE_MAXIMUM)
    IN  [self |-> over, vec |-> r.vec,
         result |-> Try(r.result, LAMBDA n : decode_length_delimited("request", r.vec))]

\* HeaderCodec::read_request
read_request(self, io) ==
    LET r == take_read_to_end(io, REQUEST_SIZE_MAXIMUM)
    IN  [self |-> self, vec |-> r.vec,
         result |-> Try(r.result, LAMBDA n : decode_length_delimited("request", r.vec))]

\* HeaderCodec::read_response
read_response(self, io) ==
    LET r == take_read_to_end(io, RESPONSE_SIZE_MAXIMUM)
    IN  [self |-> self, vec |-> r.vec,
         result |-> Try(r.result, LAMBDA n : decode_length_delimited("response", r.vec))]

\* Mutant: the request is written without its length prefix.
write_request_NoPrefix(self, io, req) ==
    IF io.fail
    THEN [self |-> self, vec |-> <<>>, result |-> Err("io")]
    ELSE [self |-> self, vec |-> encode_raw("request", req), result |-> Ok(<<>>)]

\* HeaderCodec::write_request
write_request(self, io, req) ==
    LET data == encode_length_delimited_to_vec("request", req)
    IN  IF io.fail
        THEN [self |-> self, vec |-> <<>>, result |-> Err("io")]
        ELSE [self |-> self, vec |-> data, result |-> Ok(<<>>)]

\* HeaderCodec::write_response
write_response(self, io, resp) ==
    LET data == encode_length_delimited_to_vec("response", resp)
    IN  IF io.fail
        THEN [self |-> self, vec |-> <<>>, result |-> Err("io")]
        ELSE [self |-> self, vec |-> data, result |-> Ok(<<>>)]

\* ---- inputs of CodecSpec ----
MaxCalls == 3

Requests ==
    {HeaderRequest(a, d) : a \in {0, 1, 300},
                           d \in {None, Some(Origin(0)), Some(Origin(1)), Some(Origin(70000))}}
    \cup {HeaderRequest(1, Some(Hash(BRun(171, 32)))),
          HeaderRequest(1, Some(Hash(BRun(0, 2000))))}

\* Overhead of a length-delimited response around a body of 10 MiB or so:
\* 4 bytes of length prefix, 1 of key, 4 of body length, 2 of status code.
MaxFitBody == RESPONSE_SIZE_MAXIMUM - 11

Responses ==
    {HeaderResponse(<<>>, 0), HeaderResponse(<<>>, 2), HeaderResponse(<<>>, 3),
     HeaderResponse(BOf(<<10, 3, 1, 2, 3>>), 1),
     HeaderResponse(BRun(7, 70000), 1),
     HeaderResponse(BRun(7, MaxFitBody), 1),
     HeaderResponse(BRun(7, MaxFitBody + 1), 1),
     HeaderResponse(BRun(0, RESPONSE_SIZE_MAXIMUM), 1)}

\* origin 5, amount 2, and unknown fields of every wire type in between.
RequestWithUnknownFields ==
    LET raw == <<8, 5,  32, 1,  41, 0, 0, 0, 0, 0, 0, 0, 0,  50, 2, 170, 170,
                 59, 32, 1, 60,  69, 0, 0, 0, 0,  24, 2>>
    IN  BOf(<<Len(raw)>> \o raw)

PadTo(b, total) == BCat(b, BRun(0, total - BLen(b)))

\* What a peer may put on a stream the node reads a `kind` message from.
PeerStreams(kind, cap) ==
    LET good == IF kind = "request"
                THEN {encode_length_delimited_to_vec(kind, HeaderRequest(1, Some(Origin(1)))),
                      RequestWithUnknownFields}
                ELSE {encode_length_delimited_to_vec(kind, HeaderResponse(BRun(7, 70000), 1)),
                      encode_length_delimited_to_vec(kind, HeaderResponse(<<>>, 2))}
        bad ==  {<<>>, BOf(<<128>>), BOf(<<5, 8>>), BOf(<<2, 0, 0>>), BOf(<<2, 8>>),
                 BOf(<<3, 59, 32, 1>>), BOf(<<2, 15, 1>>), BRun(255, cap + 1)}
    IN  {[bytes |-> PadTo(g, t), err |-> FALSE] : g \in good, t \in {cap, cap + 1, 2 * cap}}
        \cup {[bytes |-> g, err |-> TRUE] : g \in good}
        \cup {[bytes |-> PadTo(g, cap), err |-> TRUE] : g \in good}
        \cup {[bytes |-> b, err |-> FALSE] : b \in bad}

Call(op, io, msg, sent, r) ==
    [op |-> op, io |-> io, msg |-> msg, sent |-> sent, vec |-> r.vec, result |-> r.result]

\* The streams a read of `kind` is offered: what a peer sends, or the bytes
\* the preceding successful write_<kind> wrote, followed by end of stream.
ReadChoices(kind, cap) ==
    {[io |-> io, sent |-> None] : io \in PeerStreams(kind, cap)}
    \cup IF last.some /\ last.v.op = <<"write", kind>> /\ last.v.result.tag = "Ok"
         THEN {[io |-> [bytes |-> last.v.vec, err |-> FALSE], sent |-> last.v.msg]}
         ELSE {}

CodecIdle == codec = HeaderCodec /\ last = None /\ memo = None /\ ncalls = 0

\* A Codec call: op is <<"read" | "write", "request" | "response">>, io the
\* stream, msg the message written, sent the message whose write produced the
\* stream read, vec the bytes buffered or written.
\* After a call: it becomes `last`; it is also remembered in `memo`, or the
\* memo is kept.
Record(op, io, msg, sent, r) ==
    /\ ncalls < MaxCalls
    /\ codec' = r.self
    /\ last' = Some(Call(op, io, msg, sent, r))
    /\ ncalls' = ncalls + 1
    /\ \/ memo' = Some([call |-> last'.v, at |-> ncalls + 1])
       \/ memo' = memo
    /\ UNCHANGED offCodec

ReadRequest ==
    \E c \in ReadChoices("request", REQUEST_SIZE_MAXIMUM) :
        Record(<<"read", "request">>, c.io, None, c.sent, read_request(codec, c.io))

ReadResponse ==
    \E c \in ReadChoices("response", RESPONSE_SIZE_MAXIMUM) :
        Record(<<"read", "response">>, c.io, None, c.sent, read_response(codec, c.io))

WriteRequest ==
    \E req \in Requests, fail \in BOOLEAN :
        /\ fail => req = HeaderRequest(1, Some(Origin(1)))
        /\ Record(<<"write", "request">>, [fail |-> fail], Some(req), None,
                  write_request(codec, [fail |-> fail], req))

WriteResponse ==
    \E resp \in Responses, fail \in BOOLEAN :
        /\ fail => resp = HeaderResponse(<<>>, 2)
        /\ Record(<<"write", "response">>, [fail |-> fail], Some(resp), None,
                  write_response(codec, [fail |-> fail], resp))

\* ---- exchange_behaviour ----
\* Strings are sequences of one-character strings.

HEADER_EX_SUFFIX ==
    <<"/", "h", "e", "a", "d", "e", "r", "-", "e", "x", "/", "v", "0", ".", "0", ".", "3">>

\* StreamProtocol::try_from_owned: the protocol must start with '/'.
StreamProtocol_try_from_owned(protocol) ==
    IF protocol = <<>> \/ Head(protocol) # "/"
    THEN Err("InvalidProtocol")
    ELSE Ok(protocol)

\* Mutant: the protocol identifier leaves the network name out.
exchange_behaviour_NoNetwork(network) ==
    [panic |-> FALSE, protocols |-> <<[protocol |-> HEADER_EX_SUFFIX, support |-> "Full"]>>]

\* exchange_behaviour(network): the (protocol, support) pairs handed to
\* request_response::Behaviour::new, or a panic of expect().
exchange_behaviour(network) ==
    LET protocol == <<"/">> \o network \o HEADER_EX_SUFFIX
        sp == StreamProtocol_try_from_owned(protocol)
    IN  IF sp.tag = "Err"
        THEN [panic |-> TRUE, protocols |-> <<>>]
        ELSE [panic |-> FALSE, protocols |-> <<[protocol |-> sp.val, support |-> "Full"]>>]

NETWORK == <<"p", "r", "i", "v", "a", "t", "e">>

MaxBehaviours == 2
NetworkChars == {"a", "/", "-"}

Networks ==
    {<<"m", "o", "c", "h", "a">>, <<"p", "r", "i", "v", "a", "t", "e", "/">>, <<>>}
    \cup {<<c>> : c \in NetworkChars}
    \cup {<<c, d>> : c \in NetworkChars, d \in NetworkChars}

BehaviourIdle == behaviours = {}

\* exchange_behaviour(network), for a network no behaviour was built for yet
BuildBehaviour ==
    \E network \in Networks :
        /\ Cardinality(behaviours) < MaxBehaviours
        /\ \A r \in behaviours : r.network # network
        /\ behaviours' = behaviours \cup {[network |-> network, b |-> exchange_behaviour(network)]}
        /\ UNCHANGED offBehaviour

\* Behaviour::new of main.rs: exchange_behaviour(NETWORK)
BehaviourNew ==
    /\ Cardinality(behaviours) < MaxBehaviours
    /\ \A r \in behaviours : r.network # NETWORK
    /\ behaviours' = behaviours \cup {[network |-> NETWORK, b |-> exchange_behaviour(NETWORK)]}
    /\ UNCHANGED offBehaviour

(***************************************************************************)
(*                      node/src/main.rs                                   *)
(*                                                                         *)
(* main sets the swarm up, dials the bridge and then handles one swarm     *)
(* event per turn of its loop.  The swarm (libp2p) is the environment: it  *)
(* reports a Response or an OutboundFailure at most once for a request     *)
(* that is pending, and an inbound Request whenever a peer sends one.      *)
(***************************************************************************)

MaxRequests == 2
MaxInbound == 2

Peers == {"bridge", "peer"}
StatusCodes == {0, 1, 2}
Bodies == {"header", "malformed", "empty"}

MainIdle ==
    /\ pc = "setup"
    /\ dialed = FALSE
    /\ identified = {}
    /\ outbound = <<>>
    /\ inbound = <<>>
    /\ event = "none"

\* ExtendedHeader::decode(&response.body[..]): only an encoded header decodes.
ExtendedHeader_decode(body) ==
    IF body = "header" THEN Ok("ExtendedHeader") ELSE Err("decode")

\* Lines 26-68 of main: any `?` before the loop returns the error from main;
\* otherwise the bridge has been dialed when the loop is entered.
Setup ==
    /\ pc = "setup"
    /\ \/ pc' = "loop" /\ dialed' = TRUE
       \/ pc' = "exited" /\ dialed' = FALSE
    /\ UNCHANGED <<identified, outbound, inbound, event, offMain>>

\* An event whose arm only prints.
Printed(e) ==
    /\ pc = "loop"
    /\ event' = e
    /\ UNCHANGED <<pc, dialed, identified, outbound, inbound, offMain>>

\* SwarmEvent::NewListenAddr
NewListenAddr == Printed("NewListenAddr")

\* The request goes to the bridge, whoever was identified.
IdentifyReceived_ToBridge(peer_id) ==
    /\ pc = "loop"
    /\ Len(outbound) < MaxRequests
    /\ outbound' = Append(outbound, [peer |-> "bridge",
                                     req |-> HeaderRequest(1, Some(Origin(1))),
                                     state |-> "pending", processed |-> 0,
                                     response |-> None])
    /\ identified' = identified \cup {peer_id}
    /\ event' = "IdentifyReceived"
    /\ UNCHANGED <<pc, dialed, inbound, offMain>>

\* identify::Event::Received { peer_id, .. }: header_ex.send_request(&peer_id,
\* HeaderRequest { amount: 1, data: Some(Origin(1)) }); the request id is the
\* index of the new entry of outbound.
IdentifyReceived(peer_id) ==
    /\ pc = "loop"
    /\ Len(outbound) < MaxRequests
    /\ outbound' = Append(outbound, [peer |-> peer_id,
                                     req |-> HeaderRequest(1, Some(Origin(1))),
                                     state |-> "pending", processed |-> 0,
                                     response |-> None])
    /\ identified' = identified \cup {peer_id}
    /\ event' = "IdentifyReceived"
    /\ UNCHANGED <<pc, dialed, inbound, offMain>>

OnIdentifyReceived == \E peer_id \in Peers : IdentifyReceived(peer_id)

\* identify::Event::{Sent, Pushed, Error}
IdentifyOther == Printed("IdentifyOther")

\* request_response::Event::Message { message: Response { request_id, response } }:
\* the status is printed and the body decoded; `?` returns a decode error
\* from main.
HeaderExResponse(request_id, response) ==
    /\ pc = "loop"
    /\ outbound[request_id].state = "pending"
    /\ outbound' = [outbound EXCEPT ![request_id].state = "responded",
                                    ![request_id].processed = @ + 1,
                                    ![request_id].response = Some(response)]
    /\ pc' = IF ExtendedHeader_decode(response.body).tag = "Err" THEN "exited" ELSE "loop"
    /\ event' = "Response"
    /\ UNCHANGED <<dialed, identified, inbound, offMain>>

OnHeaderExResponse ==
    \E request_id \in DOMAIN outbound, code \in StatusCodes, body \in Bodies :
        /\ (code # 1) => body = "empty"
        /\ HeaderExResponse(request_id, [status_code |-> code, body |-> body])

\* request_response::Event::Message { message: Request { channel, .. } }: the
\* `_` arm prints the event; the ResponseChannel is dropped with it and
\* nothing is written on the exchange.
HeaderExRequest(peer) ==
    /\ pc = "loop"
    /\ Len(inbound) < MaxInbound
    /\ inbound' = Append(inbound, [peer |-> peer, channel |-> "dropped", written |-> 0])
    /\ event' = "Request"
    /\ UNCHANGED <<pc, dialed, identified, outbound, offMain>>

OnHeaderExRequest == \E peer \in Peers : HeaderExRequest(peer)

\* request_response::Event::OutboundFailure { request_id, .. } (timeout,
\* connection closed, dial failure, unsupported protocol): `_` arm.
HeaderExOutboundFailure ==
    \E request_id \in DOMAIN outbound :
        /\ pc = "loop"
        /\ outbound[request_id].state = "pending"
        /\ outbound' = [outbound EXCEPT ![request_id].state = "failed"]
        /\ event' = "OutboundFailure"
        /\ UNCHANGED <<pc, dialed, identified, inbound, offMain>>

\* request_response::Event::InboundFailure { .. } (the response was omitted
\* when the channel was dropped): `_` arm.
HeaderExInboundFailure ==
    \E i \in DOMAIN inbound :
        /\ pc = "loop"
        /\ inbound[i].channel = "dropped"
        /\ inbound' = [inbound EXCEPT ![i].channel = "omission reported"]
        /\ event' = "InboundFailure"
        /\ UNCHANGED <<pc, dialed, identified, outbound, offMain>>

\* BehaviourEvent::KeepAlive(event): the arm prints the event.
KeepAliveEvent == Printed("KeepAlive")

\* Any other SwarmEvent (connection established or closed, dial error, ...):
\* the `e => println!` arm.
OtherSwarmEvent ==
    \E e \in {"ConnectionEstablished", "ConnectionClosed", "OutgoingConnectionError"} :
        Printed(e)

(***************************************************************************)
(*        node-uniffi/src/types/event.rs : From<LuminaNodeEvent>           *)
(***************************************************************************)

\* u64 and u128 values are little-endian sequences of 16-bit limbs: four
\* limbs for a u64, eight for a u128.
LIMB == 65536
U64_LIMBS == 4
U128_LIMBS == 8

\* The n-limb value of a small natural number.
RECURSIVE Wide(_, _)
Wide(x, n) == IF n = 0 THEN <<>> ELSE <<x % LIMB>> \o Wide(x \div LIMB, n - 1)

\* a * m + carry at the width of a, for a small m.
RECURSIVE MulAdd(_, _, _)
MulAdd(a, m, carry) ==
    IF a = <<>> THEN <<>>
    ELSE <<(Head(a) * m + carry) % LIMB>>
             \o MulAdd(Tail(a), m, (Head(a) * m + carry) \div LIMB)

\* u64 -> u128 (lossless) and u128 -> u64 with `as` (keeps the low 64 bits).
Widen(a) == a \o Wide(0, U128_LIMBS - Len(a))
as_u64(a) == SubSeq(a, 1, U64_LIMBS)

\* Duration { secs: u64, nanos: u32 } with nanos < 1_000_000_000.
Duration(secs, nanos) == [secs |-> secs, nanos |-> nanos]

\* Duration::as_millis: secs as u128 * 1000 + (nanos / 1_000_000) as u128.
Duration_as_millis(took) ==
    MulAdd(Widen(took.secs), 1000, took.nanos \div 1000000)

\* took.as_millis() as u64
took_ms(took) == as_u64(Duration_as_millis(took))

\* bs58 alphabet of libp2p's PeerId::to_base58.
BS58 ==
    <<"1", "2", "3", "4", "5", "6", "7", "8", "9", "A", "B", "C", "D",
    "E", "F", "G", "H", "J", "K", "L", "M", "N", "P", "Q", "R", "S", "T",
    "U", "V", "W", "X", "Y", "Z", "a", "b", "c", "d", "e", "f", "g", "h",
    "i", "j", "k", "m", "n", "o", "p", "q", "r", "s", "t", "u", "v", "w",
    "x", "y", "z">>

RECURSIVE FromBytes(_, _)
FromBytes(b, acc) == IF b = <<>> THEN acc ELSE FromBytes(Tail(b), acc * 256 + Head(b))

RECURSIVE LeadingZeros(_)
LeadingZeros(b) == IF b = <<>> \/ Head(b) # 0 THEN 0 ELSE 1 + LeadingZeros(Tail(b))

RECURSIVE Base58Digits(_)
Base58Digits(n) == IF n = 0 THEN <<>> ELSE Base58Digits(n \div 58) \o <<BS58[(n % 58) + 1]>>

\* libp2p PeerId::to_string: the base58 text of the multihash bytes.
PeerId_to_string(peer_id) ==
    [i \in 1..LeadingZeros(peer_id) |-> BS58[1]] \o Base58Digits(FromBytes(peer_id, 0))

\* PeerId::from_libp2p
PeerId_from_libp2p(peer_id) == [peer_id |-> PeerId_to_string(peer_id)]

\* |(row, col)| ShareCoordinate { column: row, row: col }
ShareCoordinate_Swapped(rc) == [row |-> rc[2], column |-> rc[1]]

\* |(row, col)| ShareCoordinate { row, column: col }
ShareCoordinate(rc) == [row |-> rc[1], column |-> rc[2]]

\* shares.into_iter().map(..).collect()
MapShares(shares) == [i \in 1..Len(shares) |-> ShareCoordinate(shares[i])]

\* The variants of LuminaNodeEvent the conversion names.
EventKinds ==
    {"ConnectingToBootnodes", "PeerConnected", "PeerDisconnected",
     "SamplingStarted", "ShareSamplingResult", "SamplingFinished",
     "FatalDaserError", "AddedHeaderFromHeaderSub", "FetchingHeadHeaderStarted",
     "FetchingHeadHeaderFinished", "FetchingHeadersStarted",
     "FetchingHeadersFinished", "FetchingHeadersFailed", "FatalSyncerError",
     "PrunedHeaders", "FatalPrunerError", "NetworkCompromised", "NodeStopped"}

\* impl From<LuminaNodeEvent> for NodeEvent: Ok(the NodeEvent), or
\* Err("panic") for the `_` arm.
NodeEvent_from(e) ==
    CASE e.kind \in {"ConnectingToBootnodes", "FetchingHeadHeaderStarted",
                     "NetworkCompromised", "NodeStopped"} ->
             Ok([kind |-> e.kind])
      [] e.kind \in {"PeerConnected", "PeerDisconnected"} ->
             Ok([kind |-> e.kind, id |-> PeerId_from_libp2p(e.id), trusted |-> e.trusted])
      [] e.kind = "SamplingStarted" ->
             Ok([kind |-> e.kind, height |-> e.height, square_width |-> e.square_width,
                 shares |-> MapShares(e.shares)])
      [] e.kind = "ShareSamplingResult" ->
             Ok([kind |-> e.kind, height |-> e.height, square_width |-> e.square_width,
                 row |-> e.row, column |-> e.column, accepted |-> e.accepted])
      [] e.kind = "SamplingFinished" ->
             Ok([kind |-> e.kind, height |-> e.height, accepted |-> e.accepted,
                 took_ms |-> took_ms(e.took)])
      [] e.kind \in {"FatalDaserError", "FatalSyncerError", "FatalPrunerError"} ->
             Ok([kind |-> e.kind, error |-> e.error])
      [] e.kind = "AddedHeaderFromHeaderSub" ->
             Ok([kind |-> e.kind, height |-> e.height])
      [] e.kind = "FetchingHeadHeaderFinished" ->
             Ok([kind |-> e.kind, height |-> e.height, took_ms |-> took_ms(e.took)])
      [] e.kind = "FetchingHeadersStarted" ->
             Ok([kind |-> e.kind, from_height |-> e.from_height, to_height |-> e.to_height])
      [] e.kind = "FetchingHeadersFinished" ->
             Ok([kind |-> e.kind, from_height |-> e.from_height, to_height |-> e.to_height,
                 took_ms |-> took_ms(e.took)])
      [] e.kind = "FetchingHeadersFailed" ->
             Ok([kind |-> e.kind, from_height |-> e.from_height, to_height |-> e.to_height,
                 error |-> e.error, took_ms |-> took_ms(e.took)])
      [] e.kind = "PrunedHeaders" ->
             Ok([kind |-> e.kind, to_height |-> e.to_height])
      [] OTHER -> Err("panic")

\* Inputs of the conversion.
EventPeerIds == {<<0, 1>>, <<18, 32, 7>>}
EventHeights == {1, 7}
EventShares == {<<>>, <<<<0, 1>>>>, <<<<0, 1>>, <<1, 0>>>>, <<<<1, 3>>, <<0, 2>>, <<1, 3>>>>}
EventErrors == {"", "timeout"}
\* 0, 1, 2^32, the largest seconds whose milliseconds fit in a u64, the next
\* one, u64::MAX.
DurationSecs ==
    {Wide(0, U64_LIMBS), Wide(1, U64_LIMBS), <<0, 0, 1, 0>>,
     <<42991, 19398, 35127, 65>>, <<42992, 19398, 35127, 65>>,
     <<65535, 65535, 65535, 65535>>}
DurationNanos == {0, 999999, 1000000, 615999999, 616000000, 999999999}
Durations == {Duration(s, n) : s \in DurationSecs, n \in DurationNanos}

LuminaNodeEvents ==
    {[kind |-> k] : k \in {"ConnectingToBootnodes", "FetchingHeadHeaderStarted",
                           "NetworkCompromised", "NodeStopped", "Unknown"}}
    \cup {[kind |-> k, id |-> id, trusted |-> t] :
              k \in {"PeerConnected", "PeerDisconnected"}, id \in EventPeerIds,
              t \in BOOLEAN}
    \cup {[kind |-> "SamplingStarted", height |-> h, square_width |-> 4, shares |-> sh] :
              h \in EventHeights, sh \in EventShares}
    \cup {[kind |-> "ShareSamplingResult", height |-> h, square_width |-> 4,
           row |-> r, column |-> c, accepted |-> a] :
              h \in EventHeights, r \in {0, 1}, c \in {0, 3}, a \in BOOLEAN}
    \cup {[kind |-> "SamplingFinished", height |-> h, accepted |-> a, took |-> d] :
              h \in EventHeights, a \in BOOLEAN, d \in Durations}
    \cup {[kind |-> k, error |-> er] :
              k \in {"FatalDaserError", "FatalSyncerError", "FatalPrunerError"},
              er \in EventErrors}
    \cup {[kind |-> "AddedHeaderFromHeaderSub", height |-> h] : h \in EventHeights}
    \cup {[kind |-> "FetchingHeadHeaderFinished", height |-> h, took |-> d] :
              h \in EventHeights, d \in Durations}
    \cup {[kind |-> "FetchingHeadersStarted", from_height |-> 1, to_height |-> h] :
              h \in EventHeights}
    \cup {[kind |-> "FetchingHeadersFinished", from_height |-> 1, to_height |-> h,
           took |-> d] : h \in EventHeights, d \in Durations}
    \cup {[kind |-> "FetchingHeadersFailed", from_height |-> 1, to_height |-> h,
           error |-> er, took |-> d] :
              h \in EventHeights, er \in EventErrors, d \in Durations}
    \cup {[kind |-> "PrunedHeaders", to_height |-> h] : h \in EventHeights}

EventIdle ==
    /\ lumina = None
    /\ node_event = None

\* A LuminaNodeEvent is about to be converted.
EventInit ==
    /\ lumina \in {Some(e) : e \in LuminaNodeEvents}
    /\ node_event = None

\* NodeEvent::from(event)
Convert ==
    /\ lumina.some
    /\ node_event = None
    /\ node_event' = Some(NodeEvent_from(lumina.v))
    /\ UNCHANGED <<lumina, offEvent>>

(***************************************************************************)
(*        types/src/share.rs : NamespacedRow <-> RawRow                    *)
(***************************************************************************)

HASH_SIZE == 32
NAMESPACED_HASH_SIZE == 2 * NS_SIZE + HASH_SIZE

MissingProof == [kind |-> "MissingProof"]

\* RawProof { start, end, nodes, leaf_hash, is_max_namespace_id_ignored }
RawProof(start, end, nodes, leaf_hash, ignored) ==
    [start |-> start, end |-> end, nodes |-> nodes, leaf_hash |-> leaf_hash,
     is_max_namespace_id_ignored |-> ignored]

\* NamespacedHash::try_from(bytes): min namespace, max namespace, hash.
NamespacedHash_try_from(b) ==
    IF Len(b) # NAMESPACED_HASH_SIZE
    THEN Err([kind |-> "InvalidNamespacedHash"])
    ELSE Ok([min_ns |-> SubSeq(b, 1, NS_SIZE),
             max_ns |-> SubSeq(b, NS_SIZE + 1, 2 * NS_SIZE),
             hash |-> SubSeq(b, 2 * NS_SIZE + 1, NAMESPACED_HASH_SIZE)])

\* NamespacedHash::to_vec
NamespacedHash_to_vec(h) == h.min_ns \o h.max_ns \o h.hash

\* nodes.into_iter().map(TryInto::try_into).collect::<Result<Vec<_>>>()
RECURSIVE CollectHashes(_)
CollectHashes(nodes) ==
    IF nodes = <<>> THEN Ok(<<>>)
    ELSE Try(NamespacedHash_try_from(Head(nodes)), LAMBDA h :
         Try(CollectHashes(Tail(nodes)), LAMBDA rest : Ok(<<h>> \o rest)))

\* TryFrom<RawProof> for NamespaceProof: the sibling nodes are parsed; a
\* non-empty leaf_hash makes it a proof of absence.
NamespaceProof_try_from(raw) ==
    Try(CollectHashes(raw.nodes), LAMBDA siblings :
    Try(IF raw.leaf_hash = <<>> THEN Ok(None)
        ELSE Try(NamespacedHash_try_from(raw.leaf_hash), LAMBDA leaf : Ok(Some(leaf))),
        LAMBDA leaf :
            Ok([start |-> raw.start, end |-> raw.end, siblings |-> siblings,
                leaf |-> leaf, ignore_max_ns |-> raw.is_max_namespace_id_ignored])))

\* From<NamespaceProof> for RawProof
RawProof_from(proof) ==
    RawProof(proof.start, proof.end,
             [i \in 1..Len(proof.siblings) |-> NamespacedHash_to_vec(proof.siblings[i])],
             IF proof.leaf.some THEN NamespacedHash_to_vec(proof.leaf.v) ELSE <<>>,
             proof.ignore_max_ns)

\* RawRow { shares, proof }
RawRow(shares, proof) == [shares |-> shares, proof |-> proof]

\* shares.into_iter().map(Share::new).collect::<Result<Vec<_>>>(): the first
\* error ends the collection.
RECURSIVE CollectShares(_)
CollectShares(shares) ==
    IF shares = <<>> THEN Ok(<<>>)
    ELSE Try(Share_new(Head(shares)).result, LAMBDA sh :
         Try(CollectShares(Tail(shares)), LAMBDA rest : Ok(<<sh>> \o rest)))

\* value.proof.map(TryInto::try_into).transpose()?.ok_or(Error::MissingProof)
ConvertProof(proof) ==
    IF proof.some THEN NamespaceProof_try_from(proof.v) ELSE Err(MissingProof)

\* The proof is converted before the shares.
NamespacedRow_try_from_ProofFirst(value) ==
    Try(ConvertProof(value.proof), LAMBDA proof :
    Try(CollectShares(value.shares), LAMBDA shares :
        Ok([shares |-> shares, proof |-> proof])))

\* TryFrom<RawRow> for NamespacedRow
NamespacedRow_try_from(value) ==
    Try(CollectShares(value.shares), LAMBDA shares :
    Try(ConvertProof(value.proof), LAMBDA proof :
        Ok([shares |-> shares, proof |-> proof])))

\* The proof is left out of the raw row.
RawRow_from_NoProof(value) ==
    RawRow([i \in 1..Len(value.shares) |-> Share_to_vec(value.shares[i])], None)

\* From<NamespacedRow> for RawRow
RawRow_from(value) ==
    RawRow([i \in 1..Len(value.shares) |-> Share_to_vec(value.shares[i])],
           Some(RawProof_from(value.proof)))

\* ---- inputs of RowSpec ----
RowShares ==
    {GenBytes(SHARE_SIZE, 0, 171, 1), GenBytes(SHARE_SIZE, 0, 7, 3),
     GenBytes(SHARE_SIZE - 1, 0, 171, 1), GenBytes(SHARE_SIZE + 1, 0, 171, 1), <<>>}

RowShareLists ==
    {<<>>} \cup {<<a>> : a \in RowShares} \cup {<<a, b>> : a \in RowShares, b \in RowShares}

\* A proof of presence with two siblings, a proof of absence, a proof with
\* no siblings, and proofs with a sibling or a leaf of the wrong size.
RowProofs ==
    {RawProof(1, 2, <<GenBytes(NAMESPACED_HASH_SIZE, 0, 4, 1),
                      GenBytes(NAMESPACED_HASH_SIZE, 255, 255, 0)>>, <<>>, TRUE),
     RawProof(0, 0, <<GenBytes(NAMESPACED_HASH_SIZE, 0, 9, 2)>>,
              GenBytes(NAMESPACED_HASH_SIZE, 0, 5, 5), FALSE),
     RawProof(0, 1, <<>>, <<>>, TRUE),
     RawProof(1, 2, <<GenBytes(NAMESPACED_HASH_SIZE - 1, 0, 4, 1)>>, <<>>, TRUE),
     RawProof(1, 2, <<>>, GenBytes(HASH_SIZE, 0, 4, 1), TRUE)}

RawRows ==
    {RawRow(sh, pr) : sh \in RowShareLists, pr \in {None} \cup {Some(q) : q \in RowProofs}}

RowIdle ==
    /\ raw_row = RawRow(<<>>, None)
    /\ row = None
    /\ raw_back = None
    /\ row_again = None

\* A RawRow is about to be decoded.
RowInit ==
    /\ raw_row \in RawRows
    /\ row = None
    /\ raw_back = None
    /\ row_again = None

\* let row = NamespacedRow::try_from(raw_row)
DecodeRow ==
    /\ row = None
    /\ row' = Some(NamespacedRow_try_from(raw_row))
    /\ UNCHANGED <<raw_row, raw_back, row_again, offRow>>

\* let raw_back = RawRow::from(row)
EncodeRow ==
    /\ row.some
    /\ row.v.tag = "Ok"
    /\ raw_back = None
    /\ raw_back' = Some(RawRow_from(row.v.val))
    /\ UNCHANGED <<raw_row, row, row_again, offRow>>

\* let row_again = NamespacedRow::try_from(raw_back)
DecodeAgain ==
    /\ raw_back.some
    /\ row_again = None
    /\ row_again' = Some(NamespacedRow_try_from(raw_back.v))
    /\ UNCHANGED <<raw_row, row, raw_back, offRow>>

(***************************************************************************)
(*   The node behind the events of event.rs: Synchronizer, DASer, Pruner   *)
(***************************************************************************)

MaxHeight == 4
MaxSweeps == 1
\* Retention depth of the Pruner, headers per range response, coordinates
\* drawn per session, simultaneously active sessions.
Retention == 1
ChunkSize == 2
NumSamples == 2
MaxActiveSessions == 1

SamplePeers == {"p1", "p2"}
AttemptResults == {"Verified", "RootMismatch", "Malformed", "Timeout"}

\* hash(header(h)) of the canonical chain.
HashOf(h) == <<"hash", h>>

\* A header of height h that names `parent` as the height of its predecessor.
Header(h, parent) ==
    [height |-> h, hash |-> HashOf(h), previous_hash |-> HashOf(parent)]

\* highest_height() of the store, 0 when it is empty.
highest_height(st) ==
    IF DOMAIN st = {} THEN 0
    ELSE CHOOSE h \in DOMAIN st : \A g \in DOMAIN st : g <= h

\* The headers from..to of the canonical chain.
RangeOf(from, to) ==
    [i \in 1..(to - from + 1) |-> Header(from + i - 1, from + i - 2)]

\* What a peer may answer to a request for from..to: all of it, a prefix,
\* the range without its first header, or the range with one header that
\* does not link to its predecessor.
PeerChunks(from, to) ==
    {RangeOf(from, to), RangeOf(from, to - 1), Tail(RangeOf(from, to))}
        \cup {[RangeOf(from, to) EXCEPT ![k] = Header(from + k - 1, from + k - 1)] :
                  k \in 1..(to - from + 1)}

\* Any chunk that is not empty is taken.
verify_chunk_Unchecked(st, from, chunk) == chunk # <<>>

\* Chunk verification: not empty, starts at the requested height, heights
\* increasing by one, every header linked to its predecessor (the first one
\* to the stored head, when there is one).
verify_chunk(st, from, chunk) ==
    /\ chunk # <<>>
    /\ chunk[1].height = from
    /\ \A i \in 2..Len(chunk) :
           /\ chunk[i].height = chunk[i - 1].height + 1
           /\ chunk[i].previous_hash = chunk[i - 1].hash
    /\ (from - 1 \in DOMAIN st) => chunk[1].previous_hash = st[from - 1].hash

\* put_header for every header of a chunk.
put_headers(st, chunk) ==
    [h \in DOMAIN st \cup {chunk[i].height : i \in 1..Len(chunk)} |->
        IF h \in DOMAIN st THEN st[h]
        ELSE chunk[CHOOSE i \in 1..Len(chunk) : chunk[i].height = h]]

\* The entry at the cutoff goes too.
delete_below_Inclusive(st, cutoff) == [h \in {g \in DOMAIN st : g > cutoff} |-> st[h]]

\* delete_range(1, cutoff - 1) on headers or on sample results.
delete_below(st, cutoff) == [h \in {g \in DOMAIN st : g >= cutoff} |-> st[h]]

\* Square width of the header at height h: the blocks at odd heights are
\* minimal ones.
square_width(h) == IF h % 2 = 1 THEN 1 ELSE 2

\* The coordinates drawn for a header, a function of the header alone; none
\* for a square of width 1.
Coordinates(h) ==
    IF square_width(h) = 1 THEN <<>>
    ELSE [i \in 1..NumSamples |-> <<(h + i) % square_width(h), (i - 1) % square_width(h)>>]

PendingCell == [outcome |-> "Pending", attempts |-> <<>>]

\* The Dispatcher picks a peer the coordinate has not been tried on.
CandidatePeers(cell) ==
    SamplePeers \ {cell.attempts[i].peer : i \in 1..Len(cell.attempts)}

\* Two failed attempts of any kind are escalated.
Escalates_AnyFailure(first, second) == TRUE

\* Escalation to network compromise: the first proof failed to verify and the
\* second peer's proof is structurally valid but does not match the root.
Escalates(first, second) ==
    /\ first \in {"RootMismatch", "Malformed"}
    /\ second = "RootMismatch"

\* The cell after one more attempt answered with `result`: accepted when the
\* proof verifies; a first failure is retried on another peer; a second one
\* is a compromise or a rejection.  A resolved cell keeps only its outcome.
CellAfter(cell, peer, result) ==
    IF result = "Verified" THEN [outcome |-> "Accepted", attempts |-> <<>>]
    ELSE IF cell.attempts = <<>>
         THEN [cell EXCEPT !.attempts = <<[peer |-> peer, result |-> result]>>]
    ELSE IF Escalates(cell.attempts[1].result, result)
         THEN [outcome |-> "Compromise",
               attempts |-> Append(cell.attempts, [peer |-> peer, result |-> result])]
    ELSE [outcome |-> "Rejected", attempts |-> <<>>]

ActiveSessions == {h \in DOMAIN samples : ~samples[h].finished.some}

Terminal(cell) == cell.outcome \in {"Accepted", "Rejected"}

\* The session resolves accepted whatever its cells hold.
SessionAccepted_Always(cells) == TRUE

\* A session is accepted iff every coordinate resolved Accepted.
SessionAccepted(cells) == \A i \in 1..Len(cells) : cells[i].outcome = "Accepted"

NodeIdle ==
    /\ store = <<>>
    /\ samples = <<>>
    /\ sync = [state |-> "Idle", from |-> 0, to |-> 0]
    /\ pruner = [sweeps |-> 0, events |-> 0, cutoff |-> 0]
    /\ node = [state |-> "Running", compromised |-> 0]
    /\ emitted = <<>>

Running == node.state = "Running"

\* Idle -> FetchingHead
StartSync ==
    /\ Running
    /\ sync.state = "Idle"
    /\ sync' = [sync EXCEPT !.state = "FetchingHead"]
    /\ emitted' = <<[kind |-> "FetchingHeadHeaderStarted"]>>
    /\ UNCHANGED <<store, samples, pruner, node, offNode>>

\* The network head n arrived: FetchingRange over the gap when behind,
\* Synced otherwise.
HeadReceived(n) ==
    /\ Running
    /\ sync.state = "FetchingHead"
    /\ IF n > highest_height(store)
       THEN /\ sync' = [state |-> "FetchingRange", from |-> highest_height(store) + 1, to |-> n]
            /\ emitted' = <<[kind |-> "FetchingHeadHeaderFinished", height |-> n],
                            [kind |-> "FetchingHeadersStarted",
                             from_height |-> highest_height(store) + 1, to_height |-> n]>>
       ELSE /\ sync' = [state |-> "Synced", from |-> 0, to |-> 0]
            /\ emitted' = <<[kind |-> "FetchingHeadHeaderFinished", height |-> n]>>
    /\ UNCHANGED <<store, samples, pruner, node, offNode>>

OnHeadReceived == \E n \in 1..MaxHeight : HeadReceived(n)

\* A peer answered the request for the next chunk of the range: a verified
\* chunk is appended in order, and the fetch goes on or ends Synced; any
\* other chunk is dropped whole and the request is retried.
ChunkReceived(chunk) ==
    /\ Running
    /\ sync.state = "FetchingRange"
    /\ IF verify_chunk(store, sync.from, chunk)
       THEN /\ store' = put_headers(store, chunk)
            /\ sync' = IF highest_height(store') >= sync.to
                       THEN [state |-> "Synced", from |-> 0, to |-> 0]
                       ELSE [sync EXCEPT !.from = highest_height(store') + 1]
            /\ emitted' = <<[kind |-> "FetchingHeadersFinished",
                             from_height |-> sync.from,
                             to_height |-> highest_height(store')]>>
       ELSE /\ UNCHANGED <<store, sync>>
            /\ emitted' = <<[kind |-> "FetchingHeadersFailed",
                             from_height |-> sync.from,
                             to_height |-> Min(sync.to, sync.from + ChunkSize - 1)]>>
    /\ UNCHANGED <<samples, pruner, node, offNode>>

OnChunkReceived ==
    \E chunk \in PeerChunks(sync.from, Min(sync.to, sync.from + ChunkSize - 1)) :
        ChunkReceived(chunk)

\* The fast path: the pushed header extends the stored head by exactly one.
HeaderSubFastPath(st, header) ==
    /\ header.height = highest_height(st) + 1
    /\ header.previous_hash = st[highest_height(st)].hash

\* A head announcement pushed while Synced: appended on the fast path, a
\* range fetch for the gap when it is further ahead, dropped otherwise.
HeaderSubPush(header) ==
    /\ Running
    /\ sync.state = "Synced"
    /\ IF HeaderSubFastPath(store, header)
       THEN /\ store' = put_headers(store, <<header>>)
            /\ emitted' = <<[kind |-> "AddedHeaderFromHeaderSub", height |-> header.height]>>
            /\ UNCHANGED sync
       ELSE IF header.height > highest_height(store) + 1
       THEN /\ sync' = [state |-> "FetchingRange",
                        from |-> highest_height(store) + 1, to |-> header.height]
            /\ emitted' = <<[kind |-> "FetchingHeadersStarted",
                             from_height |-> highest_height(store) + 1,
                             to_height |-> header.height]>>
            /\ UNCHANGED store
       ELSE /\ emitted' = <<>>
            /\ UNCHANGED <<store, sync>>
    /\ UNCHANGED <<samples, pruner, node, offNode>>

OnHeaderSubPush ==
    \E h \in 2..MaxHeight : \E parent \in {h - 1, h} : HeaderSubPush(Header(h, parent))

\* One sweep of the Pruner: cutoff = verified head - retention depth;
\* headers and sample results below it are deleted and one event reports
\* the sweep.  It does not run while a range fetch targets heights below
\* the cutoff.
PruneSweep ==
    /\ pruner.sweeps < MaxSweeps
    /\ highest_height(store) > Retention
    /\ ~(sync.state = "FetchingRange" /\ sync.from < highest_height(store) - Retention)
    /\ store' = delete_below(store, highest_height(store) - Retention)
    /\ samples' = delete_below(samples, highest_height(store) - Retention)
    /\ pruner' = [sweeps |-> pruner.sweeps + 1, events |-> pruner.events + 1,
                  cutoff |-> highest_height(store) - Retention]
    /\ emitted' = <<[kind |-> "PrunedHeaders",
                     to_height |-> highest_height(store) - Retention - 1]>>
    /\ UNCHANGED <<sync, node, offNode>>

\* DASer opens the session of a stored header; a square of width 1 is
\* sampled at once, with no request.
OpenSession(h) ==
    /\ Running
    /\ h \in DOMAIN store
    /\ h \notin DOMAIN samples
    /\ Cardinality(ActiveSessions) < MaxActiveSessions
    /\ samples' = [g \in DOMAIN samples \cup {h} |->
                      IF g # h THEN samples[g]
                      ELSE [shares |-> Coordinates(h),
                            cells |-> [i \in 1..Len(Coordinates(h)) |-> PendingCell],
                            finished |-> IF Coordinates(h) = <<>> THEN Some(TRUE) ELSE None]]
    /\ emitted' = <<[kind |-> "SamplingStarted", height |-> h,
                     square_width |-> square_width(h), shares |-> Coordinates(h)]>>
                   \o (IF Coordinates(h) = <<>>
                       THEN <<[kind |-> "SamplingFinished", height |-> h, accepted |-> TRUE]>>
                       ELSE <<>>)
    /\ UNCHANGED <<store, sync, pruner, node, offNode>>

OnOpenSession == \E h \in 1..MaxHeight : OpenSession(h)

\* A peer answered (or timed out on) the request for coordinate i of the
\* session of height h.
Attempt(h, i, peer, result) ==
    /\ Running
    /\ h \in ActiveSessions
    /\ samples[h].cells[i].outcome = "Pending"
    /\ peer \in CandidatePeers(samples[h].cells[i])
    /\ samples' = [samples EXCEPT ![h].cells[i] = CellAfter(@, peer, result)]
    /\ IF samples'[h].cells[i].outcome = "Compromise"
       THEN /\ node' = [state |-> "NetworkCompromised", compromised |-> node.compromised + 1]
            /\ emitted' = <<[kind |-> "NetworkCompromised"]>>
       ELSE /\ UNCHANGED node
            /\ emitted' =
                   IF Terminal(samples'[h].cells[i])
                   THEN <<[kind |-> "ShareSamplingResult", height |-> h,
                           square_width |-> square_width(h),
                           row |-> samples[h].shares[i][1],
                           column |-> samples[h].shares[i][2],
                           accepted |-> samples'[h].cells[i].outcome = "Accepted"]>>
                   ELSE <<>>
    /\ UNCHANGED <<store, sync, pruner, offNode>>

OnAttempt ==
    \E h \in ActiveSessions :
        \E i \in 1..Len(samples[h].cells), peer \in SamplePeers, result \in AttemptResults :
            Attempt(h, i, peer, result)

\* Every coordinate of the session has its outcome: the session resolves.
FinishSession(h) ==
    /\ Running
    /\ h \in ActiveSessions
    /\ \A i \in 1..Len(samples[h].cells) : Terminal(samples[h].cells[i])
    /\ samples' = [samples EXCEPT ![h].finished = Some(SessionAccepted(samples[h].cells))]
    /\ emitted' = <<[kind |-> "SamplingFinished", height |-> h,
                     accepted |-> SessionAccepted(samples[h].cells)]>>
    /\ UNCHANGED <<store, sync, pruner, node, offNode>>

OnFinishSession == \E h \in ActiveSessions : FinishSession(h)


(***************************************************************************)
(*                  grpc/src/utils.rs : Interval                           *)
(***************************************************************************)

U32_LIMBS == 2
u32_MAX == <<LIMB - 1, LIMB - 1>>

\* u128::max(self, 1)
max_1(a) == IF a = Wide(0, U128_LIMBS) THEN Wide(1, U128_LIMBS) ELSE a

\* u32::try_from(u128): the value when it fits in 32 bits.
u32_try_from(a) ==
    IF SubSeq(a, U32_LIMBS + 1, U128_LIMBS) = Wide(0, U128_LIMBS - U32_LIMBS)
    THEN Ok(SubSeq(a, 1, U32_LIMBS))
    ELSE Err("TryFromIntError")

unwrap_or(r, default) == IF r.tag = "Ok" THEN r.val ELSE default

\* #[cfg(not(target_arch = "wasm32"))] Interval::new: tokio's interval(dur)
\* panics when dur is zero; otherwise its first, immediate tick is consumed
\* and the Interval ticks with period dur.
Interval_new_native(d) ==
    IF d = Duration(Wide(0, U64_LIMBS), 0)
    THEN [panicked |-> TRUE]
    ELSE [panicked |-> FALSE, period |-> d]

\* #[cfg(target_arch = "wasm32")] Interval::new: an IntervalStream of
\* u32::try_from(dur.as_millis().max(1)).unwrap_or(u32::MAX) milliseconds.
Interval_new_wasm32(d) ==
    [panicked |-> FALSE,
     period |-> [millis |-> unwrap_or(u32_try_from(max_1(Duration_as_millis(d))), u32_MAX)]]

Interval_new(arch, d) ==
    IF arch = "wasm32" THEN Interval_new_wasm32(d) ELSE Interval_new_native(d)

\* The clock counts PeriodUnits steps per period of the Interval.
PeriodUnits == 2
MaxTicks == 3
MaxElapsed == 8

\* tokio's Interval (MissedTickBehavior::Burst) and the IntervalStream both
\* make the n-th tick available n periods after creation, and hand it out
\* at once to a tick() that is called later than that.
Deadline(n) == n * PeriodUnits

\* 0, half a millisecond, 1 ms, 1.5 ms, 1 s, exactly u32::MAX ms, one
\* millisecond more, the largest Duration.
IntervalDurations ==
    {Duration(Wide(0, U64_LIMBS), 0), Duration(Wide(0, U64_LIMBS), 500000),
     Duration(Wide(0, U64_LIMBS), 1000000), Duration(Wide(0, U64_LIMBS), 1500000),
     Duration(Wide(1, U64_LIMBS), 0),
     Duration(<<35127, 65, 0, 0>>, 295000000), Duration(<<35127, 65, 0, 0>>, 296000000),
     Duration(<<LIMB - 1, LIMB - 1, LIMB - 1, LIMB - 1>>, 999999999)}

IntervalIdle ==
    /\ target_arch = "native" /\ dur = Duration(Wide(1, U64_LIMBS), 0)
    /\ interval = None /\ clock = 0 /\ ticks = <<>> /\ ticking = FALSE

IntervalInit ==
    /\ target_arch \in {"native", "wasm32"} /\ dur \in IntervalDurations
    /\ interval = None /\ clock = 0 /\ ticks = <<>> /\ ticking = FALSE

\* Interval::new(dur).await
IntervalNew ==
    /\ interval = None
    /\ interval' = Some(Interval_new(target_arch, dur))
    /\ UNCHANGED <<target_arch, dur, clock, ticks, ticking, offInterval>>

Created == interval.some /\ ~interval.v.panicked

\* interval.tick() is called
CallTick ==
    /\ Created /\ ~ticking /\ Len(ticks) < MaxTicks
    /\ ticking' = TRUE
    /\ UNCHANGED <<target_arch, dur, interval, clock, ticks, offInterval>>

\* .await of the pending tick() returns
CompleteTick ==
    /\ ticking /\ clock >= Deadline(Len(ticks) + 1)
    /\ ticks' = Append(ticks, clock)
    /\ ticking' = FALSE
    /\ UNCHANGED <<target_arch, dur, interval, clock, offInterval>>

\* Time passes; a pending tick() that is due completes first.
Elapse ==
    /\ Created /\ clock < MaxElapsed
    /\ ~(ticking /\ clock >= Deadline(Len(ticks) + 1))
    /\ clock' = clock + 1
    /\ UNCHANGED <<target_arch, dur, interval, ticks, ticking, offInterval>>


(***************************************************************************)
(*        node-wasm/src/utils.rs : resolve_dnsaddr_multiaddress            *)
(***************************************************************************)

\* A Multiaddr is the sequence of its Protocols.
Protocol(name, arg) == [proto |-> name, arg |-> arg]

\* Text is a sequence of tokens: "/", "=", the double quote and words.
QUOTE == "\""

RECURSIVE IndexOf(_, _, _)
IndexOf(text, token, from) ==
    IF from > Len(text) THEN 0
    ELSE IF text[from] = token THEN from
    ELSE IndexOf(text, token, from + 1)

\* serde_json::from_str::<String>: the text between the quotes of a JSON
\* string literal (escape sequences are not modelled).
json_from_str(text) ==
    IF /\ Len(text) >= 2 /\ text[1] = QUOTE /\ text[Len(text)] = QUOTE
       /\ IndexOf(text, QUOTE, 2) = Len(text)
    THEN Ok(SubSeq(text, 2, Len(text) - 1))
    ELSE Err("expected a JSON string")

\* str::split_once('=')
split_once(text) ==
    LET i == IndexOf(text, "=", 1) IN
    IF i = 0 THEN None
    ELSE Some(<<SubSeq(text, 1, i - 1), SubSeq(text, i + 1, Len(text))>>)

\* str::trim_end_matches('/') and str::split('/')
RECURSIVE trim_end(_)
trim_end(text) ==
    IF text # <<>> /\ text[Len(text)] = "/" THEN trim_end(SubSeq(text, 1, Len(text) - 1))
    ELSE text

RECURSIVE split(_)
split(text) ==
    LET i == IndexOf(text, "/", 1) IN
    IF i = 0 THEN <<text>>
    ELSE <<SubSeq(text, 1, i - 1)>> \o split(SubSeq(text, i + 1, Len(text)))

DnsPeerIds == {"P", "Q"}
DnsPorts == {"2121"}

\* Protocol::from_str_parts for the protocols the model knows, applied until
\* the parts run out.
RECURSIVE from_str_parts(_)
from_str_parts(parts) ==
    IF parts = <<>> THEN Ok(<<>>)
    ELSE IF Head(parts) \notin {<<"dns">>, <<"dnsaddr">>, <<"tcp">>, <<"p2p">>}
    THEN Err("UnknownProtocolString")
    ELSE IF Len(parts) < 2 \/ Len(parts[2]) # 1 THEN Err("InvalidProtocolString")
    ELSE LET name == parts[1][1]
             arg == parts[2][1]
             rest == from_str_parts(SubSeq(parts, 3, Len(parts)))
         IN  IF name = "tcp" /\ arg \notin DnsPorts THEN Err("ParsingError")
             ELSE IF name = "p2p" /\ arg \notin DnsPeerIds THEN Err("ParsingError")
             ELSE IF rest.tag = "Err" THEN rest
             ELSE Ok(<<Protocol(CASE name = "dns" -> "Dns" [] name = "dnsaddr" -> "Dnsaddr"
                                  [] name = "tcp" -> "Tcp" [] OTHER -> "P2p", arg)>>
                     \o rest.val)

\* <Multiaddr as FromStr>::from_str
Multiaddr_from_str(text) ==
    LET parts == split(trim_end(text)) IN
    IF Head(parts) # <<>> THEN Err("InvalidMultiaddr")
    ELSE from_str_parts(Tail(parts))

\* ma.iter().find_map(..): the argument of the first protocol named `name`
RECURSIVE find_map(_, _)
find_map(m, name) ==
    IF m = <<>> THEN None
    ELSE IF Head(m).proto = name THEN Some(Head(m).arg)
    ELSE find_map(Tail(m), name)

get_peer_id(m) == find_map(m, "P2p")
get_dnsaddr(m) == find_map(m, "Dnsaddr")

TXT_TYPE == 16
DEFAULT_DNS_ADDR == <<1, 1, 1, 1>>

\* format!("https://{DEFAULT_DNS_ADDR}/dns-query?type={TXT_TYPE}&name=_dnsaddr.{dnsaddr}")
Url(dnsaddr) == [host |-> DEFAULT_DNS_ADDR, path |-> "dns-query", type |-> TXT_TYPE,
                 name |-> <<"_dnsaddr.", dnsaddr>>]

\* The peer id is looked for before the dnsaddr component.
before_fetch_PeerIdFirst(m) ==
    LET dnsaddr == get_dnsaddr(m)
        peer_id == get_peer_id(m)
    IN  IF ~peer_id.some THEN [return |-> Some(Err("Peer id not found")), url |-> None]
        ELSE IF ~dnsaddr.some THEN [return |-> Some(Ok(<<m>>)), url |-> None]
        ELSE [return |-> None, url |-> Some(Url(dnsaddr.v)), peer_id |-> peer_id.v]

\* resolve_dnsaddr_multiaddress up to its fetch: what it returns early, or
\* the url it requests.
before_fetch(m) ==
    LET dnsaddr == get_dnsaddr(m)
        peer_id == get_peer_id(m)
    IN  IF ~dnsaddr.some THEN [return |-> Some(Ok(<<m>>)), url |-> None]
        ELSE IF ~peer_id.some THEN [return |-> Some(Err("Peer id not found")), url |-> None]
        ELSE [return |-> None, url |-> Some(Url(dnsaddr.v)), peer_id |-> peer_id.v]

\* Every parsed address is taken.
same_peer_id_Any(peer_id, m) == TRUE

\* `Some(peer_id) == get_peer_id(&ma)`
same_peer_id(peer_id, m) == Some(peer_id) = get_peer_id(m)

\* The body of `for entry in doh_response.answer` for one entry: the address
\* it pushes, if any.
resolve_entry(peer_id, entry) ==
    IF entry.type # TXT_TYPE THEN None
    ELSE LET data == json_from_str(entry.data) IN
         IF data.tag = "Err" THEN None
         ELSE LET kv == split_once(data.val) IN
              IF ~kv.some THEN None
              ELSE LET m == Multiaddr_from_str(kv.v[2]) IN
                   IF m.tag = "Err" THEN None
                   ELSE IF same_peer_id(peer_id, m.val) THEN Some(m.val)
                   ELSE None

RECURSIVE resolved_addrs(_, _)
resolved_addrs(peer_id, entries) ==
    IF entries = <<>> THEN <<>>
    ELSE LET pushed == resolve_entry(peer_id, Head(entries)) IN
         (IF pushed.some THEN <<pushed.v>> ELSE <<>>) \o resolved_addrs(peer_id, Tail(entries))

\* resolve_dnsaddr_multiaddress after its fetch was answered.
after_fetch(peer_id, url, resp) ==
    CASE resp.kind = "FetchFailed" -> Err(<<"failed fetching", url>>)
      [] resp.kind = "NotJson" -> Err("failed parsing response as json")
      [] resp.kind = "NotDohResponse" -> Err("failed deserializing dns-over-https response")
      [] OTHER -> Ok(resolved_addrs(peer_id, resp.answer))

\* ---- inputs ----
RECURSIVE Path(_)
Path(words) == IF words = <<>> THEN <<>> ELSE <<"/", Head(words)>> \o Path(Tail(words))

Quoted(text) == <<QUOTE>> \o text \o <<QUOTE>>
DohEntry(type, data) == [type |-> type, data |-> data]

Bridge(peer) == <<"dns", "host", "tcp", "2121", "p2p", peer>>
BridgeAddr(peer) ==
    <<Protocol("Dns", "host"), Protocol("Tcp", "2121"), Protocol("P2p", peer)>>
NestedAddr(peer) == <<Protocol("Dnsaddr", "inner"), Protocol("P2p", peer)>>

GoodEntry(peer) == DohEntry(TXT_TYPE, Quoted(<<"dnsaddr", "=">> \o Path(Bridge(peer))))
NestedEntry(peer) ==
    DohEntry(TXT_TYPE, Quoted(<<"dnsaddr", "=">> \o Path(<<"dnsaddr", "inner", "p2p", peer>>)))
NotTxtEntry == DohEntry(1, Quoted(<<"dnsaddr", "=">> \o Path(Bridge("P"))))
NotJsonEntry == DohEntry(TXT_TYPE, <<"dnsaddr", "=">> \o Path(Bridge("P")))
NoEqualsEntry == DohEntry(TXT_TYPE, Quoted(Path(Bridge("P"))))
NoSlashEntry == DohEntry(TXT_TYPE, Quoted(<<"dnsaddr", "=", "host">> \o Path(<<"p2p", "P">>)))
BadPeerEntry == DohEntry(TXT_TYPE, Quoted(<<"dnsaddr", "=">> \o Path(Bridge("notapeer"))))
NoPeerEntry == DohEntry(TXT_TYPE, Quoted(<<"dnsaddr", "=">> \o Path(<<"dns", "host", "tcp", "2121">>)))
EmptyEntry == DohEntry(TXT_TYPE, Quoted(<<"dnsaddr", "=">>))

DohEntries ==
    {GoodEntry("P"), GoodEntry("Q"), NestedEntry("P"), NotTxtEntry, NotJsonEntry,
     NoEqualsEntry, NoSlashEntry, BadPeerEntry, NoPeerEntry, EmptyEntry}

MaxAnswers == 2

DohResponses ==
    {[kind |-> "FetchFailed"], [kind |-> "NotJson"], [kind |-> "NotDohResponse"]}
    \cup {[kind |-> "DohResponse", answer |-> a] :
             a \in UNION {[1..n -> DohEntries] : n \in 0..MaxAnswers}}

Multiaddrs ==
    {<<Protocol("Dns", "host"), Protocol("Tcp", "2121")>>, BridgeAddr("P"),
     <<Protocol("Dnsaddr", "boot")>>, <<Protocol("Dnsaddr", "boot"), Protocol("P2p", "P")>>,
     <<Protocol("P2p", "Q"), Protocol("Dnsaddr", "boot")>>, <<>>}

DnsIdle == ma = <<>> /\ doh_response = None /\ requests = <<>> /\ resolved = None

DnsInit ==
    /\ ma \in Multiaddrs /\ doh_response \in {Some(r) : r \in DohResponses}
    /\ requests = <<>> /\ resolved = None

\* resolve_dnsaddr_multiaddress(ma) runs up to its first await: it returns
\* or it has sent the dns-over-https request.
ResolveStart ==
    /\ doh_response.some /\ resolved = None /\ requests = <<>>
    /\ LET step == before_fetch(ma) IN
         /\ resolved' = step.return
         /\ requests' = IF step.url.some THEN <<step.url.v>> ELSE <<>>
    /\ UNCHANGED <<ma, doh_response, offDns>>

\* The request is answered and resolve_dnsaddr_multiaddress runs to its end.
ResolveFinish ==
    /\ resolved = None /\ requests # <<>>
    /\ resolved' = Some(after_fetch(before_fetch(ma).peer_id, requests[1], doh_response.v))
    /\ UNCHANGED <<ma, doh_response, requests, offDns>>


(***************************************************************************)
(*   cli/src/common.rs, node-wasm/src/utils.rs : the network enums         *)
(***************************************************************************)

\* A value of one of the three enums: cli ArgNetwork, wasm Network
\* ("WasmNetwork" here) and the node's Network.
Variants == {"Mainnet", "Arabica", "Mocha", "Private"}
Enums == {"ArgNetwork", "WasmNetwork", "Network"}
Net(enum, variant) == [enum |-> enum, variant |-> variant]

\* cli: impl From<ArgNetwork> for Network
Network_from_ArgNetwork(network) ==
    CASE network = Net("ArgNetwork", "Mainnet") -> Net("Network", "Mainnet")
      [] network = Net("ArgNetwork", "Arabica") -> Net("Network", "Arabica")
      [] network = Net("ArgNetwork", "Mocha") -> Net("Network", "Mocha")
      [] network = Net("ArgNetwork", "Private") -> Net("Network", "Private")

\* Arabica and Mocha change places.
ArgNetwork_from_Network_Crossed(network) ==
    CASE network = Net("Network", "Mainnet") -> Net("ArgNetwork", "Mainnet")
      [] network = Net("Network", "Arabica") -> Net("ArgNetwork", "Mocha")
      [] network = Net("Network", "Mocha") -> Net("ArgNetwork", "Arabica")
      [] network = Net("Network", "Private") -> Net("ArgNetwork", "Private")

\* cli: impl From<Network> for ArgNetwork
ArgNetwork_from_Network(network) ==
    CASE network = Net("Network", "Mainnet") -> Net("ArgNetwork", "Mainnet")
      [] network = Net("Network", "Arabica") -> Net("ArgNetwork", "Arabica")
      [] network = Net("Network", "Mocha") -> Net("ArgNetwork", "Mocha")
      [] network = Net("Network", "Private") -> Net("ArgNetwork", "Private")

\* wasm: impl From<Network> for network::Network
Network_from_WasmNetwork(network) ==
    CASE network = Net("WasmNetwork", "Mainnet") -> Net("Network", "Mainnet")
      [] network = Net("WasmNetwork", "Arabica") -> Net("Network", "Arabica")
      [] network = Net("WasmNetwork", "Mocha") -> Net("Network", "Mocha")
      [] network = Net("WasmNetwork", "Private") -> Net("Network", "Private")

\* wasm: impl From<network::Network> for Network
WasmNetwork_from_Network(network) ==
    CASE network = Net("Network", "Mainnet") -> Net("WasmNetwork", "Mainnet")
      [] network = Net("Network", "Arabica") -> Net("WasmNetwork", "Arabica")
      [] network = Net("Network", "Mocha") -> Net("WasmNetwork", "Mocha")
      [] network = Net("Network", "Private") -> Net("WasmNetwork", "Private")

MaxConversions == 4

NetworkIdle == conversions = <<>>

NetworkInit == conversions \in {<<Net(e, v)>> : e \in Enums, v \in Variants}

Current == conversions[Len(conversions)]

\* `let network: Network = args.network.into()` (cli/src/server.rs run)
ArgNetworkInto ==
    /\ conversions # <<>> /\ Len(conversions) <= MaxConversions
    /\ Current.enum = "ArgNetwork"
    /\ conversions' = Append(conversions, Network_from_ArgNetwork(Current))
    /\ UNCHANGED offNetwork

\* ArgNetwork::from(network)
NetworkIntoArgNetwork ==
    /\ conversions # <<>> /\ Len(conversions) <= MaxConversions
    /\ Current.enum = "Network"
    /\ conversions' = Append(conversions, ArgNetwork_from_Network(Current))
    /\ UNCHANGED offNetwork

\* network::Network::from(network) in node-wasm
WasmNetworkInto ==
    /\ conversions # <<>> /\ Len(conversions) <= MaxConversions
    /\ Current.enum = "WasmNetwork"
    /\ conversions' = Append(conversions, Network_from_WasmNetwork(Current))
    /\ UNCHANGED offNetwork

\* Network::from(network) in node-wasm
NetworkIntoWasmNetwork ==
    /\ conversions # <<>> /\ Len(conversions) <= MaxConversions
    /\ Current.enum = "Network"
    /\ conversions' = Append(conversions, WasmNetwork_from_Network(Current))
    /\ UNCHANGED offNetwork

(***************************************************************************)
(*                      Specifications                                     *)
(***************************************************************************)

CoreIdle == ShareIdle /\ CodecIdle /\ BehaviourIdle /\ MainIdle /\ EventIdle /\ NodeIdle /\ RowIdle
BindIdle == IntervalIdle /\ DnsIdle /\ NetworkIdle

Init == CoreIdle /\ BindIdle

Next ==
    \/ Setup
    \/ NewListenAddr
    \/ OnIdentifyReceived
    \/ IdentifyOther
    \/ OnHeaderExResponse
    \/ OnHeaderExRequest
    \/ HeaderExOutboundFailure
    \/ HeaderExInboundFailure
    \/ KeepAliveEvent
    \/ OtherSwarmEvent

\* node/src/main.rs
Spec == Init /\ [][Next]_vars

ShareSpecInit == ShareInit /\ CodecIdle /\ BehaviourIdle /\ MainIdle /\ EventIdle /\ NodeIdle /\ RowIdle /\ BindIdle

ShareNext == NewShare \/ ToVec

\* types/src/share.rs
ShareSpec == ShareSpecInit /\ [][ShareNext]_vars

CodecNext == ReadRequest \/ ReadResponse \/ WriteRequest \/ WriteResponse

\* node/src/exchange.rs: HeaderCodec
CodecSpec == Init /\ [][CodecNext]_vars

BehaviourNext == BuildBehaviour \/ BehaviourNew

\* node/src/exchange.rs: exchange_behaviour
BehaviourSpec == Init /\ [][BehaviourNext]_vars

EventSpecInit ==
    ShareIdle /\ CodecIdle /\ BehaviourIdle /\ MainIdle /\ EventInit /\ NodeIdle /\ RowIdle /\ BindIdle

EventNext == Convert

\* node-uniffi/src/types/event.rs: From<LuminaNodeEvent> for NodeEvent
EventSpec == EventSpecInit /\ [][EventNext]_vars

RowSpecInit ==
    ShareIdle /\ CodecIdle /\ BehaviourIdle /\ MainIdle /\ EventIdle /\ NodeIdle /\ RowInit /\ BindIdle

RowNext == DecodeRow \/ EncodeRow \/ DecodeAgain

\* types/src/share.rs: TryFrom<RawRow> for NamespacedRow, From<NamespacedRow>
RowSpec == RowSpecInit /\ [][RowNext]_vars

NodeNext ==
    \/ StartSync
    \/ OnHeadReceived
    \/ OnChunkReceived
    \/ OnHeaderSubPush
    \/ PruneSweep
    \/ OnOpenSession
    \/ OnAttempt
    \/ OnFinishSession

\* Synchronizer, DASer and Pruner over the shared store and the Event Bus
NodeSpec == Init /\ [][NodeNext]_vars

IntervalSpecInit == CoreIdle /\ IntervalInit /\ DnsIdle /\ NetworkIdle

IntervalNext == IntervalNew \/ CallTick \/ CompleteTick \/ Elapse

IntervalSpec == IntervalSpecInit /\ [][IntervalNext]_vars

DnsSpecInit == CoreIdle /\ IntervalIdle /\ DnsInit /\ NetworkIdle

DnsNext == ResolveStart \/ ResolveFinish

DnsSpec == DnsSpecInit /\ [][DnsNext]_vars

NetworkSpecInit == CoreIdle /\ IntervalIdle /\ DnsIdle /\ NetworkInit

NetworkNext ==
    \/ ArgNetworkInto
    \/ NetworkIntoArgNetwork
    \/ WasmNetworkInto
    \/ NetworkIntoWasmNetwork

NetworkSpec == NetworkSpecInit /\ [][NetworkNext]_vars

(***************************************************************************)
(*                      Properties                                         *)
(***************************************************************************)

\* C1: Share::new fails with InvalidShareSize(len) for every input whose
\* length is not SHARE_SIZE, and returns before the namespace is split off
\* or parsed.
C1_InvalidSizeRejectedFirst ==
    (share.some /\ Len(bytes) # SHARE_SIZE) =>
        /\ share.v.result = Err(InvalidShareSize(Len(bytes)))
        /\ share.v.called = <<>>

C1_Witness ==
    /\ share.some
    /\ Len(bytes) = SHARE_SIZE + 1
    /\ share.v.result = Err(InvalidShareSize(SHARE_SIZE + 1))

C3_ShareRoundTrip ==
    vec.some =>
        /\ vec.v = bytes
        /\ Len(vec.v) = SHARE_SIZE
        /\ Namespace_as_bytes(share.v.result.val.namespace) = SubSeq(bytes, 1, NS_SIZE)
        /\ share.v.result.val.data = SubSeq(bytes, NS_SIZE + 1, SHARE_SIZE)

C3_Witness ==
    /\ vec.some
    /\ bytes[NS_SIZE] # bytes[NS_SIZE + 1]
    /\ bytes[1] # bytes[SHARE_SIZE]
    /\ vec.v = bytes

ReadCap(kind) == IF kind = "request" THEN REQUEST_SIZE_MAXIMUM ELSE RESPONSE_SIZE_MAXIMUM

\* C4: read_request (read_response) returns an error whenever the stream
\* carries more than REQUEST_SIZE_MAXIMUM (RESPONSE_SIZE_MAXIMUM) bytes.
C4_OversizedStreamRejected ==
    (last.some /\ last.v.op[1] = "read"
        /\ BLen(last.v.io.bytes) > ReadCap(last.v.op[2]))
    => last.v.result.tag = "Err"

\* C5: read_request buffers at most 1024 bytes and read_response at most
\* 10 * 1024 * 1024 bytes of the stream, and the request cap is the smaller.
C5_BoundedBuffer ==
    /\ REQUEST_SIZE_MAXIMUM = 1024
    /\ RESPONSE_SIZE_MAXIMUM = 10 * 1024 * 1024
    /\ REQUEST_SIZE_MAXIMUM < RESPONSE_SIZE_MAXIMUM
    /\ (last.some /\ last.v.op = <<"read", "request">>) => BLen(last.v.vec) <= 1024
    /\ (last.some /\ last.v.op = <<"read", "response">>) => BLen(last.v.vec) <= 10 * 1024 * 1024

C5_Witness ==
    /\ memo.some /\ last.some
    /\ memo.v.call.op = <<"read", "request">>
    /\ BLen(memo.v.call.io.bytes) > REQUEST_SIZE_MAXIMUM
    /\ BLen(memo.v.call.vec) = REQUEST_SIZE_MAXIMUM
    /\ last.v.op = <<"read", "response">>
    /\ BLen(last.v.io.bytes) > RESPONSE_SIZE_MAXIMUM
    /\ BLen(last.v.vec) = RESPONSE_SIZE_MAXIMUM

\* A read of the bytes a write produced, of a request whose data is
\* Origin(height) or absent, or of a response.
RoundTripRead ==
    /\ last.some
    /\ last.v.op[1] = "read"
    /\ last.v.sent.some
    /\ last.v.op[2] = "request" =>
           (~last.v.sent.v.data.some \/ last.v.sent.v.data.v.kind = "Origin")

\* C6 (as claimed): what write_request (write_response) wrote, read back by
\* read_request (read_response) from a stream that then ends, is the message
\* that was written, for every such request and every response.
C6_RoundTripAlways ==
    RoundTripRead => last.v.result = Ok(last.v.sent.v)

\* C6 (amended): the same, for every such request and for every response
\* whose length-delimited encoding has at most RESPONSE_SIZE_MAXIMUM bytes.
C6_RoundTripWithinCap ==
    (RoundTripRead /\ BLen(last.v.io.bytes) <= ReadCap(last.v.op[2]))
    => last.v.result = Ok(last.v.sent.v)

\* A response that fills the cap exactly: written, then read back unchanged.
C6_Witness ==
    /\ memo.some /\ last.some
    /\ memo.v.call.op = <<"write", "response">>
    /\ memo.v.call.msg = Some(HeaderResponse(BRun(7, MaxFitBody), 1))
    /\ last.v.op = <<"read", "response">>
    /\ last.v.sent = memo.v.call.msg
    /\ last.v.io.bytes = memo.v.call.vec
    /\ BLen(last.v.io.bytes) = RESPONSE_SIZE_MAXIMUM
    /\ last.v.result = Ok(HeaderResponse(BRun(7, MaxFitBody), 1))

\* C7: exchange_behaviour(network) never panics and registers exactly one
\* protocol, "/" network "/header-ex/v0.0.3", with full support; different
\* networks get different protocol identifiers.
C7_ProtocolPerNetwork ==
    /\ \A r \in behaviours :
          /\ ~r.b.panic
          /\ Len(r.b.protocols) = 1
          /\ r.b.protocols[1].support = "Full"
          /\ Len(r.b.protocols[1].protocol) = 1 + Len(r.network) + Len(HEADER_EX_SUFFIX)
          /\ Head(r.b.protocols[1].protocol) = "/"
          /\ SubSeq(r.b.protocols[1].protocol, 2, 1 + Len(r.network)) = r.network
          /\ SubSeq(r.b.protocols[1].protocol, 2 + Len(r.network),
                    Len(r.b.protocols[1].protocol)) = HEADER_EX_SUFFIX
    /\ \A r1, r2 \in behaviours :
          r1.network # r2.network => r1.b.protocols # r2.b.protocols

C7_Witness ==
    /\ \E r \in behaviours : r.network = NETWORK
    /\ \E r \in behaviours : r.network = <<"p", "r", "i", "v", "a", "t", "e", "/">>

\* C8: the codec keeps nothing between calls: it is the same value after
\* every call, and a call made again with the same stream or message gives
\* the same result as the earlier call, whatever was called in between.
C8_NoSessionState ==
    /\ codec = HeaderCodec
    /\ (memo.some /\ last.some
          /\ memo.v.call.op = last.v.op
          /\ memo.v.call.io = last.v.io
          /\ memo.v.call.msg = last.v.msg)
       => (memo.v.call.result = last.v.result /\ memo.v.call.vec = last.v.vec)

C8_Witness ==
    /\ memo.some /\ last.some
    /\ memo.v.at = 1
    /\ ncalls = 3
    /\ memo.v.call.op = <<"read", "request">>
    /\ last.v.op = <<"read", "request">>
    /\ memo.v.call.io = last.v.io
    /\ BLen(last.v.io.bytes) > REQUEST_SIZE_MAXIMUM
    /\ last.v.result.tag = "Ok"
    /\ memo.v.call.result = last.v.result

\* C9: every header-ex request the node has received got exactly one
\* response written back, and no request the node sent had more than one
\* response processed.
C9_OneResponsePerRequest ==
    /\ \A i \in DOMAIN inbound : inbound[i].written = 1
    /\ \A i \in DOMAIN outbound : outbound[i].processed <= 1

\* C10: the node never has two pending requests for the same header to the
\* same peer.
C10_SingleFlight ==
    \A i, j \in DOMAIN outbound :
        (i # j /\ outbound[i].state = "pending" /\ outbound[j].state = "pending"
             /\ outbound[i].peer = outbound[j].peer)
        => outbound[i].req # outbound[j].req

\* C11: a received header-ex response whose body does not decode as an
\* ExtendedHeader (malformed, or empty with a not-found or invalid status)
\* leaves the event loop running.
C11_ProtocolErrorNotFatal ==
    \A i \in DOMAIN outbound :
        (outbound[i].response.some
             /\ ExtendedHeader_decode(outbound[i].response.v.body).tag = "Err")
        => pc = "loop"

\* C12: once the loop has been entered (the bridge was dialed), main never
\* returns: whatever swarm event was handled last, the loop is waiting for
\* the next one.
C12_LoopNeverEnds ==
    dialed => pc = "loop"

C20_TookMsIsWholeMillis ==
    (lumina.some /\ node_event.some /\ "took" \in DOMAIN lumina.v) =>
        /\ node_event.v.tag = "Ok"
        /\ Widen(node_event.v.val.took_ms) = Duration_as_millis(lumina.v.took)

\* C14: a session that has resolved has an outcome for every coordinate
\* announced when it started, and it resolved accepted iff every one of them
\* was accepted; the SamplingFinished event carries that resolution.
C14_SamplingAllOrNothing ==
    /\ \A h \in DOMAIN samples :
           /\ Len(samples[h].cells) = Len(samples[h].shares)
           /\ samples[h].finished.some =>
                  /\ \A i \in 1..Len(samples[h].cells) :
                         samples[h].cells[i].outcome \in {"Accepted", "Rejected"}
                  /\ samples[h].finished.v =
                         (\A i \in 1..Len(samples[h].cells) :
                              samples[h].cells[i].outcome = "Accepted")
    /\ \A k \in 1..Len(emitted) :
           emitted[k].kind = "SamplingFinished" =>
               /\ emitted[k].height \in DOMAIN samples
               /\ samples[emitted[k].height].finished = Some(emitted[k].accepted)

C14_Witness ==
    \E h \in DOMAIN samples :
        /\ samples[h].finished = Some(FALSE)
        /\ samples[h].cells[1].outcome = "Accepted"
        /\ samples[h].cells[2].outcome = "Rejected"
        /\ emitted = <<[kind |-> "SamplingFinished", height |-> h, accepted |-> FALSE]>>

\* The events that report new fetch or sample activity.
ActivityKinds ==
    {"FetchingHeadersStarted", "FetchingHeadHeaderStarted",
     "AddedHeaderFromHeaderSub", "SamplingStarted"}

TwoMismatches(cell) ==
    /\ Len(cell.attempts) = 2
    /\ cell.attempts[1].peer # cell.attempts[2].peer
    /\ cell.attempts[1].result = "RootMismatch"
    /\ cell.attempts[2].result = "RootMismatch"

\* C15: a coordinate for which two different peers returned root-mismatching
\* proofs has raised NetworkCompromised, which is emitted once at most; a
\* step raises it only on a second peer's root-mismatching proof after a
\* first peer's proof failed to verify, never for one peer or for timeouts
\* alone; and once it is raised, no step emits a new fetch or sample event
\* or changes the Synchronizer, and no header or session is added.
C15_CompromiseTrigger ==
    /\ [](/\ node.compromised <= 1
          /\ (node.state = "NetworkCompromised") <=> (node.compromised = 1)
          /\ \A h \in DOMAIN samples : \A i \in 1..Len(samples[h].cells) :
                 TwoMismatches(samples[h].cells[i]) => node.state = "NetworkCompromised")
    /\ [][/\ (node'.compromised # node.compromised) =>
                 \E h \in DOMAIN samples' : \E i \in 1..Len(samples'[h].cells) :
                     /\ Len(samples'[h].cells[i].attempts) = 2
                     /\ samples'[h].cells[i].attempts[1].peer
                            # samples'[h].cells[i].attempts[2].peer
                     /\ samples'[h].cells[i].attempts[1].result # "Timeout"
                     /\ samples'[h].cells[i].attempts[2].result = "RootMismatch"
          /\ (node.state = "NetworkCompromised") =>
                 /\ \A k \in 1..Len(emitted') : emitted'[k].kind \notin ActivityKinds
                 /\ sync' = sync
                 /\ DOMAIN store' \subseteq DOMAIN store
                 /\ DOMAIN samples' \subseteq DOMAIN samples
                 /\ \A h \in DOMAIN samples' : samples'[h] = samples[h]]_vars

C15_Witness ==
    /\ node.state = "NetworkCompromised"
    /\ emitted = <<[kind |-> "NetworkCompromised"]>>
    /\ \E h \in DOMAIN samples : \E i \in 1..Len(samples[h].cells) :
           TwoMismatches(samples[h].cells[i])

C17_ChainContiguity ==
    /\ [](\A h \in DOMAIN store :
              /\ store[h].height = h
              /\ \A g \in DOMAIN store : \A k \in g..h : k \in DOMAIN store
              /\ (h - 1 \in DOMAIN store) => store[h].previous_hash = store[h - 1].hash)
    /\ [][/\ highest_height(store') >= highest_height(store)
          /\ DOMAIN store' \ DOMAIN store
                 = (highest_height(store) + 1)..highest_height(store')
          /\ (\E k \in 1..Len(emitted') : emitted'[k].kind = "AddedHeaderFromHeaderSub"
                  /\ emitted' # emitted) =>
                 highest_height(store') = highest_height(store) + 1]_vars

C17_Witness ==
    /\ emitted = <<[kind |-> "AddedHeaderFromHeaderSub", height |-> 4]>>
    /\ DOMAIN store = {2, 3, 4}
    /\ pruner.cutoff = 2

WrongSized == {i \in 1..Len(raw_row.shares) : Len(raw_row.shares[i]) # SHARE_SIZE}

\* C18: decoding a raw row succeeds only if every share has SHARE_SIZE bytes
\* and the proof is present and converts, and then the decoded shares are
\* the raw ones, as many and in the same order; with all shares of the right
\* size and no proof it fails with MissingProof; with a wrong-sized share it
\* fails with InvalidShareSize of the first such share, whether or not the
\* proof is there.
C18_RowDecodeAllOrNothing ==
    row.some =>
        /\ (row.v.tag = "Ok") =>
               /\ WrongSized = {}
               /\ raw_row.proof.some
               /\ NamespaceProof_try_from(raw_row.proof.v).tag = "Ok"
               /\ Len(row.v.val.shares) = Len(raw_row.shares)
               /\ \A i \in 1..Len(raw_row.shares) :
                      /\ row.v.val.shares[i].namespace = SubSeq(raw_row.shares[i], 1, NS_SIZE)
                      /\ row.v.val.shares[i].data
                             = SubSeq(raw_row.shares[i], NS_SIZE + 1, SHARE_SIZE)
        /\ (WrongSized = {} /\ ~raw_row.proof.some) => row.v = Err(MissingProof)
        /\ (WrongSized # {}) =>
               \E i \in WrongSized :
                   /\ \A j \in WrongSized : i <= j
                   /\ row.v = Err(InvalidShareSize(Len(raw_row.shares[i])))

C18_Witness ==
    /\ row.some
    /\ Len(raw_row.shares) = 2
    /\ Len(raw_row.shares[1]) = SHARE_SIZE - 1
    /\ Len(raw_row.shares[2]) = SHARE_SIZE + 1
    /\ ~raw_row.proof.some
    /\ row.v = Err(InvalidShareSize(SHARE_SIZE - 1))

\* C19: the RawRow built from a decoded row has a proof and shares of
\* SHARE_SIZE bytes, and decoding it gives the decoded row again: the same
\* shares in the same order and the same proof.
C19_RowRoundTrip ==
    /\ raw_back.some =>
           /\ raw_back.v.proof.some
           /\ \A i \in 1..Len(raw_back.v.shares) : Len(raw_back.v.shares[i]) = SHARE_SIZE
           /\ Len(raw_back.v.shares) = Len(row.v.val.shares)
    /\ row_again.some =>
           /\ row_again.v.tag = "Ok"
           /\ row_again.v.val.shares = row.v.val.shares
           /\ row_again.v.val.proof = row.v.val.proof

C19_Witness ==
    /\ row_again.some
    /\ row_again.v.tag = "Ok"
    /\ Len(row_again.v.val.shares) = 2
    /\ row_again.v.val.shares[1] # row_again.v.val.shares[2]
    /\ row_again.v.val.proof.leaf.some
    /\ raw_back.v = raw_row

\* C21: Interval behaves the same on native and wasm32: Interval::new(dur)
\* always yields an Interval, its first tick() completes no sooner than one
\* full period after creation, every later tick() completes exactly one
\* period after the previous one, and on wasm32 a period below one millisecond
\* is 1 ms and a period above u32::MAX ms is u32::MAX ms.
C21_IntervalIdentical ==
    /\ interval.some => ~interval.v.panicked
    /\ Len(ticks) >= 1 => ticks[1] >= PeriodUnits
    /\ \A i \in 2..Len(ticks) : ticks[i] = ticks[i - 1] + PeriodUnits
    /\ (target_arch = "wasm32" /\ interval.some) =>
          LET millis == Duration_as_millis(dur) IN
            /\ millis = Wide(0, U128_LIMBS) => interval.v.period.millis = Wide(1, U32_LIMBS)
            /\ u32_try_from(millis).tag = "Err" => interval.v.period.millis = u32_MAX

HasProtocol(m, name) == \E i \in 1..Len(m) : m[i].proto = name

\* The addresses a dns-over-https answer holds for `peer`, in order.
RECURSIVE AddressesOf(_, _)
AddressesOf(peer, entries) ==
    IF entries = <<>> THEN <<>>
    ELSE (CASE Head(entries) = GoodEntry(peer) -> <<BridgeAddr(peer)>>
            [] Head(entries) = NestedEntry(peer) -> <<NestedAddr(peer)>>
            [] OTHER -> <<>>)
         \o AddressesOf(peer, Tail(entries))

\* C22: for a multiaddr with a dnsaddr component and a peer id P, every
\* address resolve_dnsaddr_multiaddress returns contains the peer id P; and
\* whenever the dns-over-https response deserializes, the resolution succeeds
\* with exactly the well-formed TXT answers for P, the entries that are not
\* TXT, not JSON strings, lack '=', do not parse as a multiaddr or carry a
\* different or no peer id being skipped.
C22_OnlyQueriedPeer ==
    (resolved.some /\ HasProtocol(ma, "Dnsaddr") /\ HasProtocol(ma, "P2p")) =>
        \E P \in DnsPeerIds :
            /\ \E i \in 1..Len(ma) : ma[i] = Protocol("P2p", P)
            /\ resolved.v.tag = "Ok" =>
                 \A k \in 1..Len(resolved.v.val) :
                     \E j \in 1..Len(resolved.v.val[k]) :
                         resolved.v.val[k][j] = Protocol("P2p", P)
            /\ doh_response.v.kind = "DohResponse" =>
                 resolved.v = Ok(AddressesOf(P, doh_response.v.answer))

C22_Witness ==
    /\ ma = <<Protocol("Dnsaddr", "boot"), Protocol("P2p", "P")>>
    /\ doh_response = Some([kind |-> "DohResponse", answer |-> <<GoodEntry("Q"), GoodEntry("P")>>])
    /\ resolved = Some(Ok(<<BridgeAddr("P")>>))

\* C23: for a multiaddr without dnsaddr component, with or without peer id,
\* resolve_dnsaddr_multiaddress returns exactly that address and requests
\* nothing; for one with a dnsaddr component and no peer id it returns the
\* error "Peer id not found" and requests nothing.
C23_NoRequestWithoutDnsaddrAndPeer ==
    /\ ~HasProtocol(ma, "Dnsaddr") =>
          /\ requests = <<>>
          /\ resolved.some => resolved.v = Ok(<<ma>>)
    /\ (HasProtocol(ma, "Dnsaddr") /\ ~HasProtocol(ma, "P2p")) =>
          /\ requests = <<>>
          /\ resolved.some => resolved.v = Err("Peer id not found")

C23_Witness ==
    /\ ma = <<Protocol("Dns", "host"), Protocol("Tcp", "2121")>>
    /\ resolved = Some(Ok(<<ma>>))
    /\ requests = <<>>

\* C24: the binding enums are in bijection with the node's Network: every
\* conversion yields the variant of the same name (Mainnet, Arabica, Mocha,
\* Private) of the other enum, and converting a value of ArgNetwork, of the
\* wasm Network or of the node's Network there and back yields the value it
\* started from.
C24_NetworkBijection ==
    /\ \A i \in 1..Len(conversions) :
          conversions[i].enum \in Enums /\ conversions[i].variant \in Variants
    /\ \A i \in 1..(Len(conversions) - 1) :
          /\ conversions[i + 1].variant = conversions[i].variant
          /\ (conversions[i].enum = "Network") # (conversions[i + 1].enum = "Network")
    /\ \A i \in 1..(Len(conversions) - 2) :
          conversions[i + 2].enum = conversions[i].enum => conversions[i + 2] = conversions[i]

C24_Witness ==
    /\ Len(conversions) >= 3
    /\ SubSeq(conversions, 1, 3) =
          <<Net("Network", "Mocha"), Net("ArgNetwork", "Mocha"), Net("Network", "Mocha")>>

\* C25: in the event loop a header request is sent only in response to
\* identification: every request ever sent is HeaderRequest{amount: 1,
\* data: Origin(1)}, went to a peer whose Identify Received event has been
\* handled, and was sent after the bridge was dialed; each handled Identify
\* Received event for peer p sends exactly one request, to p, and no other
\* step of the loop sends one.
C25_RequestOnlyOnIdentify ==
    /\ [](/\ \A i \in 1..Len(outbound) :
               /\ outbound[i].peer \in identified
               /\ outbound[i].req = HeaderRequest(1, Some(Origin(1)))
          /\ outbound # <<>> => dialed)
    /\ [][/\ \A p \in Peers : IdentifyReceived(p) =>
                /\ Len(outbound') = Len(outbound) + 1
                /\ outbound'[Len(outbound')].peer = p
                /\ SubSeq(outbound', 1, Len(outbound)) = outbound
          /\ Len(outbound') # Len(outbound) =>
                /\ Len(outbound') = Len(outbound) + 1
                /\ event' = "IdentifyReceived"
                /\ identified' = identified \cup {outbound'[Len(outbound')].peer}
                /\ dialed]_vars

C25_Witness ==
    /\ pc = "loop"
    /\ identified = {"peer"}
    /\ Len(outbound) = 2
    /\ \A i \in 1..2 : outbound[i].peer = "peer" /\ outbound[i].state = "pending"

====
